---------------------------- MODULE Spec2Model ----------------------------
(***************************************************************************)
(* insider-pulse (src/index.js): Form 4 filing parser, transaction         *)
(* collector, date sort and cluster-buy detector, and the two lookup flows *)
(* that fetch filings and report them.                                     *)
(*                                                                         *)
(* Representation of JavaScript values                                     *)
(*   string   a sequence of tokens.  A token is one character ("P", " ")   *)
(*            or one whole markup tag ("<transactionCode>"); a text never  *)
(*            holds a "<" of its own, so the regular expressions of the    *)
(*            source, which look for literal tags, are searches for tag    *)
(*            tokens.                                                      *)
(*   number   an IEEE 754 double: Double(sign, m, e) is sign * m * 2^e,    *)
(*            with m a natural number written in binary (its bits, least   *)
(*            significant first) and odd, or <<>> for zero; Num(n) is the  *)
(*            double of the integer n; Infinity(sign); NaN.  A time value  *)
(*            (the number of a Date) is Time(day, ms), whole days and      *)
(*            further milliseconds from the epoch.                         *)
(*   null     Null; a nullable string field holds Str(s) or NullStr.        *)
(*   array    a sequence; inside detectClusters an array is an object on a  *)
(*            heap, with an address, holding the addresses of its records. *)
(***************************************************************************)
EXTENDS Integers, Sequences, FiniteSets, TLC

VARIABLES
    \* ---- the environment of the process
    TZ,           \* process.env.TZ: the zone of local time
    \* ---- parseForm4Transactions called on one document
    filing,       \* the structure the document text was written from
    xml,          \* the document text handed to parseForm4Transactions
    parsed,       \* Null before the call, then the returned array
    \* ---- detectClusters called on one transaction array
    trades,       \* the caller's array (the argument), as the caller reads it
    tradesIn,     \* its contents when it was built (before any call)
    windowDays,   \* the second argument
    results,      \* how each call made so far ended (returned clusters or error), in order
    \* ---- the same filings collected in two orders
    docsA, docsB, \* two orders of the same documents (their names)
    runA, runB,   \* Null, then the rows and the clusters of each order
    \* ---- one invocation of the command (main)
    opts,         \* what parseArgs() gives for the arguments of the command line
    pc,           \* where main / lookupTicker / lookupRecent is suspended
    queue,        \* number of filings the loop iterates over (after the cap)
    found,        \* number of filings the feed or search returned
    processed,    \* the loop counter of the source
    allTrades,    \* the accumulating array
    fetched,      \* the names of the documents handed to the parser so far, in order
    merged,       \* allTrades as it was just before the sort
    clusters,     \* detectClusters(allTrades), once computed
    stdout,       \* what was printed: usage, banner, notice, table rows, cluster lines
    errors,       \* number of console.error messages
    exitCode,     \* Null while running, then Num(0) or Num(1)
    inFlight,     \* HTTP requests issued and not yet answered
    filingReqs,   \* HTTP requests for filings issued so far, counted up to 2
    delayed,      \* a 150 ms timer has run out since the last filing request
    failures      \* [feed |-> the feed/search failed, filing |-> filings that gave nothing]

parseVars == <<filing, xml, parsed>>
clusterVars == <<trades, tradesIn, windowDays, results>>
permVars == <<docsA, docsB, runA, runB>>
flowVars == <<opts, pc, queue, found, processed, allTrades, fetched, merged,
              clusters, stdout, errors, exitCode, inFlight, filingReqs,
              delayed, failures>>
vars == <<TZ, parseVars, clusterVars, permVars, flowVars>>

-----------------------------------------------------------------------------
(* Bounds of the model *)

\* nonDerivative/derivative transaction blocks per generated document
MaxBlocks == 2
\* length of the array handed to detectClusters
MaxTrades == 3
\* documents collected in two orders
MaxDocs == 3
\* entries a feed or search result may list
MaxFeed == 16
\* filings of one invocation whose document is fetched successfully
MaxFetched == 3

\* the zones the process may run in: UTC and one at a fixed distance from
\* it (five hours behind, without daylight saving)
Zones == {"UTC", "Etc/GMT+5"}

(* Constants of the program *)

MsPerDay == 86400000
DefaultWindowDays == 7
FilingCap == 15

\* String.prototype.toUpperCase, character by character: every character the
\* mapping changes, with what it becomes (one to three characters).  A
\* character is one UTF-16 code unit, or the two of a surrogate pair
UpperCase ==
    {<<<<"a">>, <<"A">>>>, <<<<"b">>, <<"B">>>>, <<<<"c">>, <<"C">>>>,
     <<<<"d">>, <<"D">>>>, <<<<"e">>, <<"E">>>>, <<<<"f">>, <<"F">>>>,
     <<<<"g">>, <<"G">>>>, <<<<"h">>, <<"H">>>>, <<<<"i">>, <<"I">>>>,
     <<<<"j">>, <<"J">>>>, <<<<"k">>, <<"K">>>>, <<<<"l">>, <<"L">>>>,
     <<<<"m">>, <<"M">>>>, <<<<"n">>, <<"N">>>>, <<<<"o">>, <<"O">>>>,
     <<<<"p">>, <<"P">>>>, <<<<"q">>, <<"Q">>>>, <<<<"r">>, <<"R">>>>,
     <<<<"s">>, <<"S">>>>, <<<<"t">>, <<"T">>>>, <<<<"u">>, <<"U">>>>,
     <<<<"v">>, <<"V">>>>, <<<<"w">>, <<"W">>>>, <<<<"x">>, <<"X">>>>,
     <<<<"y">>, <<"Y">>>>, <<<<"z">>, <<"Z">>>>,
     <<<<"U+00B5">>, <<"U+039C">>>>, <<<<"U+00DF">>, <<"S", "S">>>>,
     <<<<"U+00E0">>, <<"U+00C0">>>>, <<<<"U+00E1">>, <<"U+00C1">>>>,
     <<<<"U+00E2">>, <<"U+00C2">>>>, <<<<"U+00E3">>, <<"U+00C3">>>>,
     <<<<"U+00E4">>, <<"U+00C4">>>>, <<<<"U+00E5">>, <<"U+00C5">>>>,
     <<<<"U+00E6">>, <<"U+00C6">>>>, <<<<"U+00E7">>, <<"U+00C7">>>>,
     <<<<"U+00E8">>, <<"U+00C8">>>>, <<<<"U+00E9">>, <<"U+00C9">>>>,
     <<<<"U+00EA">>, <<"U+00CA">>>>, <<<<"U+00EB">>, <<"U+00CB">>>>,
     <<<<"U+00EC">>, <<"U+00CC">>>>, <<<<"U+00ED">>, <<"U+00CD">>>>,
     <<<<"U+00EE">>, <<"U+00CE">>>>, <<<<"U+00EF">>, <<"U+00CF">>>>,
     <<<<"U+00F0">>, <<"U+00D0">>>>, <<<<"U+00F1">>, <<"U+00D1">>>>,
     <<<<"U+00F2">>, <<"U+00D2">>>>, <<<<"U+00F3">>, <<"U+00D3">>>>,
     <<<<"U+00F4">>, <<"U+00D4">>>>, <<<<"U+00F5">>, <<"U+00D5">>>>,
     <<<<"U+00F6">>, <<"U+00D6">>>>, <<<<"U+00F8">>, <<"U+00D8">>>>,
     <<<<"U+00F9">>, <<"U+00D9">>>>, <<<<"U+00FA">>, <<"U+00DA">>>>,
     <<<<"U+00FB">>, <<"U+00DB">>>>, <<<<"U+00FC">>, <<"U+00DC">>>>,
     <<<<"U+00FD">>, <<"U+00DD">>>>, <<<<"U+00FE">>, <<"U+00DE">>>>,
     <<<<"U+00FF">>, <<"U+0178">>>>, <<<<"U+0101">>, <<"U+0100">>>>,
     <<<<"U+0103">>, <<"U+0102">>>>, <<<<"U+0105">>, <<"U+0104">>>>,
     <<<<"U+0107">>, <<"U+0106">>>>, <<<<"U+0109">>, <<"U+0108">>>>,
     <<<<"U+010B">>, <<"U+010A">>>>, <<<<"U+010D">>, <<"U+010C">>>>,
     <<<<"U+010F">>, <<"U+010E">>>>, <<<<"U+0111">>, <<"U+0110">>>>,
     <<<<"U+0113">>, <<"U+0112">>>>, <<<<"U+0115">>, <<"U+0114">>>>,
     <<<<"U+0117">>, <<"U+0116">>>>, <<<<"U+0119">>, <<"U+0118">>>>,
     <<<<"U+011B">>, <<"U+011A">>>>, <<<<"U+011D">>, <<"U+011C">>>>,
     <<<<"U+011F">>, <<"U+011E">>>>, <<<<"U+0121">>, <<"U+0120">>>>,
     <<<<"U+0123">>, <<"U+0122">>>>, <<<<"U+0125">>, <<"U+0124">>>>,
     <<<<"U+0127">>, <<"U+0126">>>>, <<<<"U+0129">>, <<"U+0128">>>>,
     <<<<"U+012B">>, <<"U+012A">>>>, <<<<"U+012D">>, <<"U+012C">>>>,
     <<<<"U+012F">>, <<"U+012E">>>>, <<<<"U+0131">>, <<"I">>>>,
     <<<<"U+0133">>, <<"U+0132">>>>, <<<<"U+0135">>, <<"U+0134">>>>,
     <<<<"U+0137">>, <<"U+0136">>>>, <<<<"U+013A">>, <<"U+0139">>>>,
     <<<<"U+013C">>, <<"U+013B">>>>, <<<<"U+013E">>, <<"U+013D">>>>,
     <<<<"U+0140">>, <<"U+013F">>>>, <<<<"U+0142">>, <<"U+0141">>>>,
     <<<<"U+0144">>, <<"U+0143">>>>, <<<<"U+0146">>, <<"U+0145">>>>,
     <<<<"U+0148">>, <<"U+0147">>>>, <<<<"U+0149">>, <<"U+02BC", "N">>>>,
     <<<<"U+014B">>, <<"U+014A">>>>, <<<<"U+014D">>, <<"U+014C">>>>,
     <<<<"U+014F">>, <<"U+014E">>>>, <<<<"U+0151">>, <<"U+0150">>>>,
     <<<<"U+0153">>, <<"U+0152">>>>, <<<<"U+0155">>, <<"U+0154">>>>,
     <<<<"U+0157">>, <<"U+0156">>>>, <<<<"U+0159">>, <<"U+0158">>>>,
     <<<<"U+015B">>, <<"U+015A">>>>, <<<<"U+015D">>, <<"U+015C">>>>,
     <<<<"U+015F">>, <<"U+015E">>>>, <<<<"U+0161">>, <<"U+0160">>>>,
     <<<<"U+0163">>, <<"U+0162">>>>, <<<<"U+0165">>, <<"U+0164">>>>,
     <<<<"U+0167">>, <<"U+0166">>>>, <<<<"U+0169">>, <<"U+0168">>>>,
     <<<<"U+016B">>, <<"U+016A">>>>, <<<<"U+016D">>, <<"U+016C">>>>,
     <<<<"U+016F">>, <<"U+016E">>>>, <<<<"U+0171">>, <<"U+0170">>>>,
     <<<<"U+0173">>, <<"U+0172">>>>, <<<<"U+0175">>, <<"U+0174">>>>,
     <<<<"U+0177">>, <<"U+0176">>>>, <<<<"U+017A">>, <<"U+0179">>>>,
     <<<<"U+017C">>, <<"U+017B">>>>, <<<<"U+017E">>, <<"U+017D">>>>,
     <<<<"U+017F">>, <<"S">>>>, <<<<"U+0180">>, <<"U+0243">>>>,
     <<<<"U+0183">>, <<"U+0182">>>>, <<<<"U+0185">>, <<"U+0184">>>>,
     <<<<"U+0188">>, <<"U+0187">>>>, <<<<"U+018C">>, <<"U+018B">>>>,
     <<<<"U+0192">>, <<"U+0191">>>>, <<<<"U+0195">>, <<"U+01F6">>>>,
     <<<<"U+0199">>, <<"U+0198">>>>, <<<<"U+019A">>, <<"U+023D">>>>,
     <<<<"U+019B">>, <<"U+A7DC">>>>, <<<<"U+019E">>, <<"U+0220">>>>,
     <<<<"U+01A1">>, <<"U+01A0">>>>, <<<<"U+01A3">>, <<"U+01A2">>>>,
     <<<<"U+01A5">>, <<"U+01A4">>>>, <<<<"U+01A8">>, <<"U+01A7">>>>,
     <<<<"U+01AD">>, <<"U+01AC">>>>, <<<<"U+01B0">>, <<"U+01AF">>>>,
     <<<<"U+01B4">>, <<"U+01B3">>>>, <<<<"U+01B6">>, <<"U+01B5">>>>,
     <<<<"U+01B9">>, <<"U+01B8">>>>, <<<<"U+01BD">>, <<"U+01BC">>>>,
     <<<<"U+01BF">>, <<"U+01F7">>>>, <<<<"U+01C5">>, <<"U+01C4">>>>,
     <<<<"U+01C6">>, <<"U+01C4">>>>, <<<<"U+01C8">>, <<"U+01C7">>>>,
     <<<<"U+01C9">>, <<"U+01C7">>>>, <<<<"U+01CB">>, <<"U+01CA">>>>,
     <<<<"U+01CC">>, <<"U+01CA">>>>, <<<<"U+01CE">>, <<"U+01CD">>>>,
     <<<<"U+01D0">>, <<"U+01CF">>>>, <<<<"U+01D2">>, <<"U+01D1">>>>,
     <<<<"U+01D4">>, <<"U+01D3">>>>, <<<<"U+01D6">>, <<"U+01D5">>>>,
     <<<<"U+01D8">>, <<"U+01D7">>>>, <<<<"U+01DA">>, <<"U+01D9">>>>,
     <<<<"U+01DC">>, <<"U+01DB">>>>, <<<<"U+01DD">>, <<"U+018E">>>>,
     <<<<"U+01DF">>, <<"U+01DE">>>>, <<<<"U+01E1">>, <<"U+01E0">>>>,
     <<<<"U+01E3">>, <<"U+01E2">>>>, <<<<"U+01E5">>, <<"U+01E4">>>>,
     <<<<"U+01E7">>, <<"U+01E6">>>>, <<<<"U+01E9">>, <<"U+01E8">>>>,
     <<<<"U+01EB">>, <<"U+01EA">>>>, <<<<"U+01ED">>, <<"U+01EC">>>>,
     <<<<"U+01EF">>, <<"U+01EE">>>>, <<<<"U+01F0">>, <<"J", "U+030C">>>>,
     <<<<"U+01F2">>, <<"U+01F1">>>>, <<<<"U+01F3">>, <<"U+01F1">>>>,
     <<<<"U+01F5">>, <<"U+01F4">>>>, <<<<"U+01F9">>, <<"U+01F8">>>>,
     <<<<"U+01FB">>, <<"U+01FA">>>>, <<<<"U+01FD">>, <<"U+01FC">>>>,
     <<<<"U+01FF">>, <<"U+01FE">>>>, <<<<"U+0201">>, <<"U+0200">>>>,
     <<<<"U+0203">>, <<"U+0202">>>>, <<<<"U+0205">>, <<"U+0204">>>>,
     <<<<"U+0207">>, <<"U+0206">>>>, <<<<"U+0209">>, <<"U+0208">>>>,
     <<<<"U+020B">>, <<"U+020A">>>>, <<<<"U+020D">>, <<"U+020C">>>>,
     <<<<"U+020F">>, <<"U+020E">>>>, <<<<"U+0211">>, <<"U+0210">>>>,
     <<<<"U+0213">>, <<"U+0212">>>>, <<<<"U+0215">>, <<"U+0214">>>>,
     <<<<"U+0217">>, <<"U+0216">>>>, <<<<"U+0219">>, <<"U+0218">>>>,
     <<<<"U+021B">>, <<"U+021A">>>>, <<<<"U+021D">>, <<"U+021C">>>>,
     <<<<"U+021F">>, <<"U+021E">>>>, <<<<"U+0223">>, <<"U+0222">>>>,
     <<<<"U+0225">>, <<"U+0224">>>>, <<<<"U+0227">>, <<"U+0226">>>>,
     <<<<"U+0229">>, <<"U+0228">>>>, <<<<"U+022B">>, <<"U+022A">>>>,
     <<<<"U+022D">>, <<"U+022C">>>>, <<<<"U+022F">>, <<"U+022E">>>>,
     <<<<"U+0231">>, <<"U+0230">>>>, <<<<"U+0233">>, <<"U+0232">>>>,
     <<<<"U+023C">>, <<"U+023B">>>>, <<<<"U+023F">>, <<"U+2C7E">>>>,
     <<<<"U+0240">>, <<"U+2C7F">>>>, <<<<"U+0242">>, <<"U+0241">>>>,
     <<<<"U+0247">>, <<"U+0246">>>>, <<<<"U+0249">>, <<"U+0248">>>>,
     <<<<"U+024B">>, <<"U+024A">>>>, <<<<"U+024D">>, <<"U+024C">>>>,
     <<<<"U+024F">>, <<"U+024E">>>>, <<<<"U+0250">>, <<"U+2C6F">>>>,
     <<<<"U+0251">>, <<"U+2C6D">>>>, <<<<"U+0252">>, <<"U+2C70">>>>,
     <<<<"U+0253">>, <<"U+0181">>>>, <<<<"U+0254">>, <<"U+0186">>>>,
     <<<<"U+0256">>, <<"U+0189">>>>, <<<<"U+0257">>, <<"U+018A">>>>,
     <<<<"U+0259">>, <<"U+018F">>>>, <<<<"U+025B">>, <<"U+0190">>>>,
     <<<<"U+025C">>, <<"U+A7AB">>>>, <<<<"U+0260">>, <<"U+0193">>>>,
     <<<<"U+0261">>, <<"U+A7AC">>>>, <<<<"U+0263">>, <<"U+0194">>>>,
     <<<<"U+0264">>, <<"U+A7CB">>>>, <<<<"U+0265">>, <<"U+A78D">>>>,
     <<<<"U+0266">>, <<"U+A7AA">>>>, <<<<"U+0268">>, <<"U+0197">>>>,
     <<<<"U+0269">>, <<"U+0196">>>>, <<<<"U+026A">>, <<"U+A7AE">>>>,
     <<<<"U+026B">>, <<"U+2C62">>>>, <<<<"U+026C">>, <<"U+A7AD">>>>,
     <<<<"U+026F">>, <<"U+019C">>>>, <<<<"U+0271">>, <<"U+2C6E">>>>,
     <<<<"U+0272">>, <<"U+019D">>>>, <<<<"U+0275">>, <<"U+019F">>>>,
     <<<<"U+027D">>, <<"U+2C64">>>>, <<<<"U+0280">>, <<"U+01A6">>>>,
     <<<<"U+0282">>, <<"U+A7C5">>>>, <<<<"U+0283">>, <<"U+01A9">>>>,
     <<<<"U+0287">>, <<"U+A7B1">>>>, <<<<"U+0288">>, <<"U+01AE">>>>,
     <<<<"U+0289">>, <<"U+0244">>>>, <<<<"U+028A">>, <<"U+01B1">>>>,
     <<<<"U+028B">>, <<"U+01B2">>>>, <<<<"U+028C">>, <<"U+0245">>>>,
     <<<<"U+0292">>, <<"U+01B7">>>>, <<<<"U+029D">>, <<"U+A7B2">>>>,
     <<<<"U+029E">>, <<"U+A7B0">>>>, <<<<"U+0345">>, <<"U+0399">>>>,
     <<<<"U+0371">>, <<"U+0370">>>>, <<<<"U+0373">>, <<"U+0372">>>>,
     <<<<"U+0377">>, <<"U+0376">>>>, <<<<"U+037B">>, <<"U+03FD">>>>,
     <<<<"U+037C">>, <<"U+03FE">>>>, <<<<"U+037D">>, <<"U+03FF">>>>,
     <<<<"U+0390">>, <<"U+0399", "U+0308", "U+0301">>>>,
     <<<<"U+03AC">>, <<"U+0386">>>>, <<<<"U+03AD">>, <<"U+0388">>>>,
     <<<<"U+03AE">>, <<"U+0389">>>>, <<<<"U+03AF">>, <<"U+038A">>>>,
     <<<<"U+03B0">>, <<"U+03A5", "U+0308", "U+0301">>>>,
     <<<<"U+03B1">>, <<"U+0391">>>>, <<<<"U+03B2">>, <<"U+0392">>>>,
     <<<<"U+03B3">>, <<"U+0393">>>>, <<<<"U+03B4">>, <<"U+0394">>>>,
     <<<<"U+03B5">>, <<"U+0395">>>>, <<<<"U+03B6">>, <<"U+0396">>>>,
     <<<<"U+03B7">>, <<"U+0397">>>>, <<<<"U+03B8">>, <<"U+0398">>>>,
     <<<<"U+03B9">>, <<"U+0399">>>>, <<<<"U+03BA">>, <<"U+039A">>>>,
     <<<<"U+03BB">>, <<"U+039B">>>>, <<<<"U+03BC">>, <<"U+039C">>>>,
     <<<<"U+03BD">>, <<"U+039D">>>>, <<<<"U+03BE">>, <<"U+039E">>>>,
     <<<<"U+03BF">>, <<"U+039F">>>>, <<<<"U+03C0">>, <<"U+03A0">>>>,
     <<<<"U+03C1">>, <<"U+03A1">>>>, <<<<"U+03C2">>, <<"U+03A3">>>>,
     <<<<"U+03C3">>, <<"U+03A3">>>>, <<<<"U+03C4">>, <<"U+03A4">>>>,
     <<<<"U+03C5">>, <<"U+03A5">>>>, <<<<"U+03C6">>, <<"U+03A6">>>>,
     <<<<"U+03C7">>, <<"U+03A7">>>>, <<<<"U+03C8">>, <<"U+03A8">>>>,
     <<<<"U+03C9">>, <<"U+03A9">>>>, <<<<"U+03CA">>, <<"U+03AA">>>>,
     <<<<"U+03CB">>, <<"U+03AB">>>>, <<<<"U+03CC">>, <<"U+038C">>>>,
     <<<<"U+03CD">>, <<"U+038E">>>>, <<<<"U+03CE">>, <<"U+038F">>>>,
     <<<<"U+03D0">>, <<"U+0392">>>>, <<<<"U+03D1">>, <<"U+0398">>>>,
     <<<<"U+03D5">>, <<"U+03A6">>>>, <<<<"U+03D6">>, <<"U+03A0">>>>,
     <<<<"U+03D7">>, <<"U+03CF">>>>, <<<<"U+03D9">>, <<"U+03D8">>>>,
     <<<<"U+03DB">>, <<"U+03DA">>>>, <<<<"U+03DD">>, <<"U+03DC">>>>,
     <<<<"U+03DF">>, <<"U+03DE">>>>, <<<<"U+03E1">>, <<"U+03E0">>>>,
     <<<<"U+03E3">>, <<"U+03E2">>>>, <<<<"U+03E5">>, <<"U+03E4">>>>,
     <<<<"U+03E7">>, <<"U+03E6">>>>, <<<<"U+03E9">>, <<"U+03E8">>>>,
     <<<<"U+03EB">>, <<"U+03EA">>>>, <<<<"U+03ED">>, <<"U+03EC">>>>,
     <<<<"U+03EF">>, <<"U+03EE">>>>, <<<<"U+03F0">>, <<"U+039A">>>>,
     <<<<"U+03F1">>, <<"U+03A1">>>>, <<<<"U+03F2">>, <<"U+03F9">>>>,
     <<<<"U+03F3">>, <<"U+037F">>>>, <<<<"U+03F5">>, <<"U+0395">>>>,
     <<<<"U+03F8">>, <<"U+03F7">>>>, <<<<"U+03FB">>, <<"U+03FA">>>>,
     <<<<"U+0430">>, <<"U+0410">>>>, <<<<"U+0431">>, <<"U+0411">>>>,
     <<<<"U+0432">>, <<"U+0412">>>>, <<<<"U+0433">>, <<"U+0413">>>>,
     <<<<"U+0434">>, <<"U+0414">>>>, <<<<"U+0435">>, <<"U+0415">>>>,
     <<<<"U+0436">>, <<"U+0416">>>>, <<<<"U+0437">>, <<"U+0417">>>>,
     <<<<"U+0438">>, <<"U+0418">>>>, <<<<"U+0439">>, <<"U+0419">>>>,
     <<<<"U+043A">>, <<"U+041A">>>>, <<<<"U+043B">>, <<"U+041B">>>>,
     <<<<"U+043C">>, <<"U+041C">>>>, <<<<"U+043D">>, <<"U+041D">>>>,
     <<<<"U+043E">>, <<"U+041E">>>>, <<<<"U+043F">>, <<"U+041F">>>>,
     <<<<"U+0440">>, <<"U+0420">>>>, <<<<"U+0441">>, <<"U+0421">>>>,
     <<<<"U+0442">>, <<"U+0422">>>>, <<<<"U+0443">>, <<"U+0423">>>>,
     <<<<"U+0444">>, <<"U+0424">>>>, <<<<"U+0445">>, <<"U+0425">>>>,
     <<<<"U+0446">>, <<"U+0426">>>>, <<<<"U+0447">>, <<"U+0427">>>>,
     <<<<"U+0448">>, <<"U+0428">>>>, <<<<"U+0449">>, <<"U+0429">>>>,
     <<<<"U+044A">>, <<"U+042A">>>>, <<<<"U+044B">>, <<"U+042B">>>>,
     <<<<"U+044C">>, <<"U+042C">>>>, <<<<"U+044D">>, <<"U+042D">>>>,
     <<<<"U+044E">>, <<"U+042E">>>>, <<<<"U+044F">>, <<"U+042F">>>>,
     <<<<"U+0450">>, <<"U+0400">>>>, <<<<"U+0451">>, <<"U+0401">>>>,
     <<<<"U+0452">>, <<"U+0402">>>>, <<<<"U+0453">>, <<"U+0403">>>>,
     <<<<"U+0454">>, <<"U+0404">>>>, <<<<"U+0455">>, <<"U+0405">>>>,
     <<<<"U+0456">>, <<"U+0406">>>>, <<<<"U+0457">>, <<"U+0407">>>>,
     <<<<"U+0458">>, <<"U+0408">>>>, <<<<"U+0459">>, <<"U+0409">>>>,
     <<<<"U+045A">>, <<"U+040A">>>>, <<<<"U+045B">>, <<"U+040B">>>>,
     <<<<"U+045C">>, <<"U+040C">>>>, <<<<"U+045D">>, <<"U+040D">>>>,
     <<<<"U+045E">>, <<"U+040E">>>>, <<<<"U+045F">>, <<"U+040F">>>>,
     <<<<"U+0461">>, <<"U+0460">>>>, <<<<"U+0463">>, <<"U+0462">>>>,
     <<<<"U+0465">>, <<"U+0464">>>>, <<<<"U+0467">>, <<"U+0466">>>>,
     <<<<"U+0469">>, <<"U+0468">>>>, <<<<"U+046B">>, <<"U+046A">>>>,
     <<<<"U+046D">>, <<"U+046C">>>>, <<<<"U+046F">>, <<"U+046E">>>>,
     <<<<"U+0471">>, <<"U+0470">>>>, <<<<"U+0473">>, <<"U+0472">>>>,
     <<<<"U+0475">>, <<"U+0474">>>>, <<<<"U+0477">>, <<"U+0476">>>>,
     <<<<"U+0479">>, <<"U+0478">>>>, <<<<"U+047B">>, <<"U+047A">>>>,
     <<<<"U+047D">>, <<"U+047C">>>>, <<<<"U+047F">>, <<"U+047E">>>>,
     <<<<"U+0481">>, <<"U+0480">>>>, <<<<"U+048B">>, <<"U+048A">>>>,
     <<<<"U+048D">>, <<"U+048C">>>>, <<<<"U+048F">>, <<"U+048E">>>>,
     <<<<"U+0491">>, <<"U+0490">>>>, <<<<"U+0493">>, <<"U+0492">>>>,
     <<<<"U+0495">>, <<"U+0494">>>>, <<<<"U+0497">>, <<"U+0496">>>>,
     <<<<"U+0499">>, <<"U+0498">>>>, <<<<"U+049B">>, <<"U+049A">>>>,
     <<<<"U+049D">>, <<"U+049C">>>>, <<<<"U+049F">>, <<"U+049E">>>>,
     <<<<"U+04A1">>, <<"U+04A0">>>>, <<<<"U+04A3">>, <<"U+04A2">>>>,
     <<<<"U+04A5">>, <<"U+04A4">>>>, <<<<"U+04A7">>, <<"U+04A6">>>>,
     <<<<"U+04A9">>, <<"U+04A8">>>>, <<<<"U+04AB">>, <<"U+04AA">>>>,
     <<<<"U+04AD">>, <<"U+04AC">>>>, <<<<"U+04AF">>, <<"U+04AE">>>>,
     <<<<"U+04B1">>, <<"U+04B0">>>>, <<<<"U+04B3">>, <<"U+04B2">>>>,
     <<<<"U+04B5">>, <<"U+04B4">>>>, <<<<"U+04B7">>, <<"U+04B6">>>>,
     <<<<"U+04B9">>, <<"U+04B8">>>>, <<<<"U+04BB">>, <<"U+04BA">>>>,
     <<<<"U+04BD">>, <<"U+04BC">>>>, <<<<"U+04BF">>, <<"U+04BE">>>>,
     <<<<"U+04C2">>, <<"U+04C1">>>>, <<<<"U+04C4">>, <<"U+04C3">>>>,
     <<<<"U+04C6">>, <<"U+04C5">>>>, <<<<"U+04C8">>, <<"U+04C7">>>>,
     <<<<"U+04CA">>, <<"U+04C9">>>>, <<<<"U+04CC">>, <<"U+04CB">>>>,
     <<<<"U+04CE">>, <<"U+04CD">>>>, <<<<"U+04CF">>, <<"U+04C0">>>>,
     <<<<"U+04D1">>, <<"U+04D0">>>>, <<<<"U+04D3">>, <<"U+04D2">>>>,
     <<<<"U+04D5">>, <<"U+04D4">>>>, <<<<"U+04D7">>, <<"U+04D6">>>>,
     <<<<"U+04D9">>, <<"U+04D8">>>>, <<<<"U+04DB">>, <<"U+04DA">>>>,
     <<<<"U+04DD">>, <<"U+04DC">>>>, <<<<"U+04DF">>, <<"U+04DE">>>>,
     <<<<"U+04E1">>, <<"U+04E0">>>>, <<<<"U+04E3">>, <<"U+04E2">>>>,
     <<<<"U+04E5">>, <<"U+04E4">>>>, <<<<"U+04E7">>, <<"U+04E6">>>>,
     <<<<"U+04E9">>, <<"U+04E8">>>>, <<<<"U+04EB">>, <<"U+04EA">>>>,
     <<<<"U+04ED">>, <<"U+04EC">>>>, <<<<"U+04EF">>, <<"U+04EE">>>>,
     <<<<"U+04F1">>, <<"U+04F0">>>>, <<<<"U+04F3">>, <<"U+04F2">>>>,
     <<<<"U+04F5">>, <<"U+04F4">>>>, <<<<"U+04F7">>, <<"U+04F6">>>>,
     <<<<"U+04F9">>, <<"U+04F8">>>>, <<<<"U+04FB">>, <<"U+04FA">>>>,
     <<<<"U+04FD">>, <<"U+04FC">>>>, <<<<"U+04FF">>, <<"U+04FE">>>>,
     <<<<"U+0501">>, <<"U+0500">>>>, <<<<"U+0503">>, <<"U+0502">>>>,
     <<<<"U+0505">>, <<"U+0504">>>>, <<<<"U+0507">>, <<"U+0506">>>>,
     <<<<"U+0509">>, <<"U+0508">>>>, <<<<"U+050B">>, <<"U+050A">>>>,
     <<<<"U+050D">>, <<"U+050C">>>>, <<<<"U+050F">>, <<"U+050E">>>>,
     <<<<"U+0511">>, <<"U+0510">>>>, <<<<"U+0513">>, <<"U+0512">>>>,
     <<<<"U+0515">>, <<"U+0514">>>>, <<<<"U+0517">>, <<"U+0516">>>>,
     <<<<"U+0519">>, <<"U+0518">>>>, <<<<"U+051B">>, <<"U+051A">>>>,
     <<<<"U+051D">>, <<"U+051C">>>>, <<<<"U+051F">>, <<"U+051E">>>>,
     <<<<"U+0521">>, <<"U+0520">>>>, <<<<"U+0523">>, <<"U+0522">>>>,
     <<<<"U+0525">>, <<"U+0524">>>>, <<<<"U+0527">>, <<"U+0526">>>>,
     <<<<"U+0529">>, <<"U+0528">>>>, <<<<"U+052B">>, <<"U+052A">>>>,
     <<<<"U+052D">>, <<"U+052C">>>>, <<<<"U+052F">>, <<"U+052E">>>>,
     <<<<"U+0561">>, <<"U+0531">>>>, <<<<"U+0562">>, <<"U+0532">>>>,
     <<<<"U+0563">>, <<"U+0533">>>>, <<<<"U+0564">>, <<"U+0534">>>>,
     <<<<"U+0565">>, <<"U+0535">>>>, <<<<"U+0566">>, <<"U+0536">>>>,
     <<<<"U+0567">>, <<"U+0537">>>>, <<<<"U+0568">>, <<"U+0538">>>>,
     <<<<"U+0569">>, <<"U+0539">>>>, <<<<"U+056A">>, <<"U+053A">>>>,
     <<<<"U+056B">>, <<"U+053B">>>>, <<<<"U+056C">>, <<"U+053C">>>>,
     <<<<"U+056D">>, <<"U+053D">>>>, <<<<"U+056E">>, <<"U+053E">>>>,
     <<<<"U+056F">>, <<"U+053F">>>>, <<<<"U+0570">>, <<"U+0540">>>>,
     <<<<"U+0571">>, <<"U+0541">>>>, <<<<"U+0572">>, <<"U+0542">>>>,
     <<<<"U+0573">>, <<"U+0543">>>>, <<<<"U+0574">>, <<"U+0544">>>>,
     <<<<"U+0575">>, <<"U+0545">>>>, <<<<"U+0576">>, <<"U+0546">>>>,
     <<<<"U+0577">>, <<"U+0547">>>>, <<<<"U+0578">>, <<"U+0548">>>>,
     <<<<"U+0579">>, <<"U+0549">>>>, <<<<"U+057A">>, <<"U+054A">>>>,
     <<<<"U+057B">>, <<"U+054B">>>>, <<<<"U+057C">>, <<"U+054C">>>>,
     <<<<"U+057D">>, <<"U+054D">>>>, <<<<"U+057E">>, <<"U+054E">>>>,
     <<<<"U+057F">>, <<"U+054F">>>>, <<<<"U+0580">>, <<"U+0550">>>>,
     <<<<"U+0581">>, <<"U+0551">>>>, <<<<"U+0582">>, <<"U+0552">>>>,
     <<<<"U+0583">>, <<"U+0553">>>>, <<<<"U+0584">>, <<"U+0554">>>>,
     <<<<"U+0585">>, <<"U+0555">>>>, <<<<"U+0586">>, <<"U+0556">>>>,
     <<<<"U+0587">>, <<"U+0535", "U+0552">>>>, <<<<"U+10D0">>, <<"U+1C90">>>>,
     <<<<"U+10D1">>, <<"U+1C91">>>>, <<<<"U+10D2">>, <<"U+1C92">>>>,
     <<<<"U+10D3">>, <<"U+1C93">>>>, <<<<"U+10D4">>, <<"U+1C94">>>>,
     <<<<"U+10D5">>, <<"U+1C95">>>>, <<<<"U+10D6">>, <<"U+1C96">>>>,
     <<<<"U+10D7">>, <<"U+1C97">>>>, <<<<"U+10D8">>, <<"U+1C98">>>>,
     <<<<"U+10D9">>, <<"U+1C99">>>>, <<<<"U+10DA">>, <<"U+1C9A">>>>,
     <<<<"U+10DB">>, <<"U+1C9B">>>>, <<<<"U+10DC">>, <<"U+1C9C">>>>,
     <<<<"U+10DD">>, <<"U+1C9D">>>>, <<<<"U+10DE">>, <<"U+1C9E">>>>,
     <<<<"U+10DF">>, <<"U+1C9F">>>>, <<<<"U+10E0">>, <<"U+1CA0">>>>,
     <<<<"U+10E1">>, <<"U+1CA1">>>>, <<<<"U+10E2">>, <<"U+1CA2">>>>,
     <<<<"U+10E3">>, <<"U+1CA3">>>>, <<<<"U+10E4">>, <<"U+1CA4">>>>,
     <<<<"U+10E5">>, <<"U+1CA5">>>>, <<<<"U+10E6">>, <<"U+1CA6">>>>,
     <<<<"U+10E7">>, <<"U+1CA7">>>>, <<<<"U+10E8">>, <<"U+1CA8">>>>,
     <<<<"U+10E9">>, <<"U+1CA9">>>>, <<<<"U+10EA">>, <<"U+1CAA">>>>,
     <<<<"U+10EB">>, <<"U+1CAB">>>>, <<<<"U+10EC">>, <<"U+1CAC">>>>,
     <<<<"U+10ED">>, <<"U+1CAD">>>>, <<<<"U+10EE">>, <<"U+1CAE">>>>,
     <<<<"U+10EF">>, <<"U+1CAF">>>>, <<<<"U+10F0">>, <<"U+1CB0">>>>,
     <<<<"U+10F1">>, <<"U+1CB1">>>>, <<<<"U+10F2">>, <<"U+1CB2">>>>,
     <<<<"U+10F3">>, <<"U+1CB3">>>>, <<<<"U+10F4">>, <<"U+1CB4">>>>,
     <<<<"U+10F5">>, <<"U+1CB5">>>>, <<<<"U+10F6">>, <<"U+1CB6">>>>,
     <<<<"U+10F7">>, <<"U+1CB7">>>>, <<<<"U+10F8">>, <<"U+1CB8">>>>,
     <<<<"U+10F9">>, <<"U+1CB9">>>>, <<<<"U+10FA">>, <<"U+1CBA">>>>,
     <<<<"U+10FD">>, <<"U+1CBD">>>>, <<<<"U+10FE">>, <<"U+1CBE">>>>,
     <<<<"U+10FF">>, <<"U+1CBF">>>>, <<<<"U+13F8">>, <<"U+13F0">>>>,
     <<<<"U+13F9">>, <<"U+13F1">>>>, <<<<"U+13FA">>, <<"U+13F2">>>>,
     <<<<"U+13FB">>, <<"U+13F3">>>>, <<<<"U+13FC">>, <<"U+13F4">>>>,
     <<<<"U+13FD">>, <<"U+13F5">>>>, <<<<"U+1C80">>, <<"U+0412">>>>,
     <<<<"U+1C81">>, <<"U+0414">>>>, <<<<"U+1C82">>, <<"U+041E">>>>,
     <<<<"U+1C83">>, <<"U+0421">>>>, <<<<"U+1C84">>, <<"U+0422">>>>,
     <<<<"U+1C85">>, <<"U+0422">>>>, <<<<"U+1C86">>, <<"U+042A">>>>,
     <<<<"U+1C87">>, <<"U+0462">>>>, <<<<"U+1C88">>, <<"U+A64A">>>>,
     <<<<"U+1C8A">>, <<"U+1C89">>>>, <<<<"U+1D79">>, <<"U+A77D">>>>,
     <<<<"U+1D7D">>, <<"U+2C63">>>>, <<<<"U+1D8E">>, <<"U+A7C6">>>>,
     <<<<"U+1E01">>, <<"U+1E00">>>>, <<<<"U+1E03">>, <<"U+1E02">>>>,
     <<<<"U+1E05">>, <<"U+1E04">>>>, <<<<"U+1E07">>, <<"U+1E06">>>>,
     <<<<"U+1E09">>, <<"U+1E08">>>>, <<<<"U+1E0B">>, <<"U+1E0A">>>>,
     <<<<"U+1E0D">>, <<"U+1E0C">>>>, <<<<"U+1E0F">>, <<"U+1E0E">>>>,
     <<<<"U+1E11">>, <<"U+1E10">>>>, <<<<"U+1E13">>, <<"U+1E12">>>>,
     <<<<"U+1E15">>, <<"U+1E14">>>>, <<<<"U+1E17">>, <<"U+1E16">>>>,
     <<<<"U+1E19">>, <<"U+1E18">>>>, <<<<"U+1E1B">>, <<"U+1E1A">>>>,
     <<<<"U+1E1D">>, <<"U+1E1C">>>>, <<<<"U+1E1F">>, <<"U+1E1E">>>>,
     <<<<"U+1E21">>, <<"U+1E20">>>>, <<<<"U+1E23">>, <<"U+1E22">>>>,
     <<<<"U+1E25">>, <<"U+1E24">>>>, <<<<"U+1E27">>, <<"U+1E26">>>>,
     <<<<"U+1E29">>, <<"U+1E28">>>>, <<<<"U+1E2B">>, <<"U+1E2A">>>>,
     <<<<"U+1E2D">>, <<"U+1E2C">>>>, <<<<"U+1E2F">>, <<"U+1E2E">>>>,
     <<<<"U+1E31">>, <<"U+1E30">>>>, <<<<"U+1E33">>, <<"U+1E32">>>>,
     <<<<"U+1E35">>, <<"U+1E34">>>>, <<<<"U+1E37">>, <<"U+1E36">>>>,
     <<<<"U+1E39">>, <<"U+1E38">>>>, <<<<"U+1E3B">>, <<"U+1E3A">>>>,
     <<<<"U+1E3D">>, <<"U+1E3C">>>>, <<<<"U+1E3F">>, <<"U+1E3E">>>>,
     <<<<"U+1E41">>, <<"U+1E40">>>>, <<<<"U+1E43">>, <<"U+1E42">>>>,
     <<<<"U+1E45">>, <<"U+1E44">>>>, <<<<"U+1E47">>, <<"U+1E46">>>>,
     <<<<"U+1E49">>, <<"U+1E48">>>>, <<<<"U+1E4B">>, <<"U+1E4A">>>>,
     <<<<"U+1E4D">>, <<"U+1E4C">>>>, <<<<"U+1E4F">>, <<"U+1E4E">>>>,
     <<<<"U+1E51">>, <<"U+1E50">>>>, <<<<"U+1E53">>, <<"U+1E52">>>>,
     <<<<"U+1E55">>, <<"U+1E54">>>>, <<<<"U+1E57">>, <<"U+1E56">>>>,
     <<<<"U+1E59">>, <<"U+1E58">>>>, <<<<"U+1E5B">>, <<"U+1E5A">>>>,
     <<<<"U+1E5D">>, <<"U+1E5C">>>>, <<<<"U+1E5F">>, <<"U+1E5E">>>>,
     <<<<"U+1E61">>, <<"U+1E60">>>>, <<<<"U+1E63">>, <<"U+1E62">>>>,
     <<<<"U+1E65">>, <<"U+1E64">>>>, <<<<"U+1E67">>, <<"U+1E66">>>>,
     <<<<"U+1E69">>, <<"U+1E68">>>>, <<<<"U+1E6B">>, <<"U+1E6A">>>>,
     <<<<"U+1E6D">>, <<"U+1E6C">>>>, <<<<"U+1E6F">>, <<"U+1E6E">>>>,
     <<<<"U+1E71">>, <<"U+1E70">>>>, <<<<"U+1E73">>, <<"U+1E72">>>>,
     <<<<"U+1E75">>, <<"U+1E74">>>>, <<<<"U+1E77">>, <<"U+1E76">>>>,
     <<<<"U+1E79">>, <<"U+1E78">>>>, <<<<"U+1E7B">>, <<"U+1E7A">>>>,
     <<<<"U+1E7D">>, <<"U+1E7C">>>>, <<<<"U+1E7F">>, <<"U+1E7E">>>>,
     <<<<"U+1E81">>, <<"U+1E80">>>>, <<<<"U+1E83">>, <<"U+1E82">>>>,
     <<<<"U+1E85">>, <<"U+1E84">>>>, <<<<"U+1E87">>, <<"U+1E86">>>>,
     <<<<"U+1E89">>, <<"U+1E88">>>>, <<<<"U+1E8B">>, <<"U+1E8A">>>>,
     <<<<"U+1E8D">>, <<"U+1E8C">>>>, <<<<"U+1E8F">>, <<"U+1E8E">>>>,
     <<<<"U+1E91">>, <<"U+1E90">>>>, <<<<"U+1E93">>, <<"U+1E92">>>>,
     <<<<"U+1E95">>, <<"U+1E94">>>>, <<<<"U+1E96">>, <<"H", "U+0331">>>>,
     <<<<"U+1E97">>, <<"T", "U+0308">>>>, <<<<"U+1E98">>, <<"W", "U+030A">>>>,
     <<<<"U+1E99">>, <<"Y", "U+030A">>>>, <<<<"U+1E9A">>, <<"A", "U+02BE">>>>,
     <<<<"U+1E9B">>, <<"U+1E60">>>>, <<<<"U+1EA1">>, <<"U+1EA0">>>>,
     <<<<"U+1EA3">>, <<"U+1EA2">>>>, <<<<"U+1EA5">>, <<"U+1EA4">>>>,
     <<<<"U+1EA7">>, <<"U+1EA6">>>>, <<<<"U+1EA9">>, <<"U+1EA8">>>>,
     <<<<"U+1EAB">>, <<"U+1EAA">>>>, <<<<"U+1EAD">>, <<"U+1EAC">>>>,
     <<<<"U+1EAF">>, <<"U+1EAE">>>>, <<<<"U+1EB1">>, <<"U+1EB0">>>>,
     <<<<"U+1EB3">>, <<"U+1EB2">>>>, <<<<"U+1EB5">>, <<"U+1EB4">>>>,
     <<<<"U+1EB7">>, <<"U+1EB6">>>>, <<<<"U+1EB9">>, <<"U+1EB8">>>>,
     <<<<"U+1EBB">>, <<"U+1EBA">>>>, <<<<"U+1EBD">>, <<"U+1EBC">>>>,
     <<<<"U+1EBF">>, <<"U+1EBE">>>>, <<<<"U+1EC1">>, <<"U+1EC0">>>>,
     <<<<"U+1EC3">>, <<"U+1EC2">>>>, <<<<"U+1EC5">>, <<"U+1EC4">>>>,
     <<<<"U+1EC7">>, <<"U+1EC6">>>>, <<<<"U+1EC9">>, <<"U+1EC8">>>>,
     <<<<"U+1ECB">>, <<"U+1ECA">>>>, <<<<"U+1ECD">>, <<"U+1ECC">>>>,
     <<<<"U+1ECF">>, <<"U+1ECE">>>>, <<<<"U+1ED1">>, <<"U+1ED0">>>>,
     <<<<"U+1ED3">>, <<"U+1ED2">>>>, <<<<"U+1ED5">>, <<"U+1ED4">>>>,
     <<<<"U+1ED7">>, <<"U+1ED6">>>>, <<<<"U+1ED9">>, <<"U+1ED8">>>>,
     <<<<"U+1EDB">>, <<"U+1EDA">>>>, <<<<"U+1EDD">>, <<"U+1EDC">>>>,
     <<<<"U+1EDF">>, <<"U+1EDE">>>>, <<<<"U+1EE1">>, <<"U+1EE0">>>>,
     <<<<"U+1EE3">>, <<"U+1EE2">>>>, <<<<"U+1EE5">>, <<"U+1EE4">>>>,
     <<<<"U+1EE7">>, <<"U+1EE6">>>>, <<<<"U+1EE9">>, <<"U+1EE8">>>>,
     <<<<"U+1EEB">>, <<"U+1EEA">>>>, <<<<"U+1EED">>, <<"U+1EEC">>>>,
     <<<<"U+1EEF">>, <<"U+1EEE">>>>, <<<<"U+1EF1">>, <<"U+1EF0">>>>,
     <<<<"U+1EF3">>, <<"U+1EF2">>>>, <<<<"U+1EF5">>, <<"U+1EF4">>>>,
     <<<<"U+1EF7">>, <<"U+1EF6">>>>, <<<<"U+1EF9">>, <<"U+1EF8">>>>,
     <<<<"U+1EFB">>, <<"U+1EFA">>>>, <<<<"U+1EFD">>, <<"U+1EFC">>>>,
     <<<<"U+1EFF">>, <<"U+1EFE">>>>, <<<<"U+1F00">>, <<"U+1F08">>>>,
     <<<<"U+1F01">>, <<"U+1F09">>>>, <<<<"U+1F02">>, <<"U+1F0A">>>>,
     <<<<"U+1F03">>, <<"U+1F0B">>>>, <<<<"U+1F04">>, <<"U+1F0C">>>>,
     <<<<"U+1F05">>, <<"U+1F0D">>>>, <<<<"U+1F06">>, <<"U+1F0E">>>>,
     <<<<"U+1F07">>, <<"U+1F0F">>>>, <<<<"U+1F10">>, <<"U+1F18">>>>,
     <<<<"U+1F11">>, <<"U+1F19">>>>, <<<<"U+1F12">>, <<"U+1F1A">>>>,
     <<<<"U+1F13">>, <<"U+1F1B">>>>, <<<<"U+1F14">>, <<"U+1F1C">>>>,
     <<<<"U+1F15">>, <<"U+1F1D">>>>, <<<<"U+1F20">>, <<"U+1F28">>>>,
     <<<<"U+1F21">>, <<"U+1F29">>>>, <<<<"U+1F22">>, <<"U+1F2A">>>>,
     <<<<"U+1F23">>, <<"U+1F2B">>>>, <<<<"U+1F24">>, <<"U+1F2C">>>>,
     <<<<"U+1F25">>, <<"U+1F2D">>>>, <<<<"U+1F26">>, <<"U+1F2E">>>>,
     <<<<"U+1F27">>, <<"U+1F2F">>>>, <<<<"U+1F30">>, <<"U+1F38">>>>,
     <<<<"U+1F31">>, <<"U+1F39">>>>, <<<<"U+1F32">>, <<"U+1F3A">>>>,
     <<<<"U+1F33">>, <<"U+1F3B">>>>, <<<<"U+1F34">>, <<"U+1F3C">>>>,
     <<<<"U+1F35">>, <<"U+1F3D">>>>, <<<<"U+1F36">>, <<"U+1F3E">>>>,
     <<<<"U+1F37">>, <<"U+1F3F">>>>, <<<<"U+1F40">>, <<"U+1F48">>>>,
     <<<<"U+1F41">>, <<"U+1F49">>>>, <<<<"U+1F42">>, <<"U+1F4A">>>>,
     <<<<"U+1F43">>, <<"U+1F4B">>>>, <<<<"U+1F44">>, <<"U+1F4C">>>>,
     <<<<"U+1F45">>, <<"U+1F4D">>>>, <<<<"U+1F50">>, <<"U+03A5", "U+0313">>>>,
     <<<<"U+1F51">>, <<"U+1F59">>>>,
     <<<<"U+1F52">>, <<"U+03A5", "U+0313", "U+0300">>>>,
     <<<<"U+1F53">>, <<"U+1F5B">>>>,
     <<<<"U+1F54">>, <<"U+03A5", "U+0313", "U+0301">>>>,
     <<<<"U+1F55">>, <<"U+1F5D">>>>,
     <<<<"U+1F56">>, <<"U+03A5", "U+0313", "U+0342">>>>,
     <<<<"U+1F57">>, <<"U+1F5F">>>>, <<<<"U+1F60">>, <<"U+1F68">>>>,
     <<<<"U+1F61">>, <<"U+1F69">>>>, <<<<"U+1F62">>, <<"U+1F6A">>>>,
     <<<<"U+1F63">>, <<"U+1F6B">>>>, <<<<"U+1F64">>, <<"U+1F6C">>>>,
     <<<<"U+1F65">>, <<"U+1F6D">>>>, <<<<"U+1F66">>, <<"U+1F6E">>>>,
     <<<<"U+1F67">>, <<"U+1F6F">>>>, <<<<"U+1F70">>, <<"U+1FBA">>>>,
     <<<<"U+1F71">>, <<"U+1FBB">>>>, <<<<"U+1F72">>, <<"U+1FC8">>>>,
     <<<<"U+1F73">>, <<"U+1FC9">>>>, <<<<"U+1F74">>, <<"U+1FCA">>>>,
     <<<<"U+1F75">>, <<"U+1FCB">>>>, <<<<"U+1F76">>, <<"U+1FDA">>>>,
     <<<<"U+1F77">>, <<"U+1FDB">>>>, <<<<"U+1F78">>, <<"U+1FF8">>>>,
     <<<<"U+1F79">>, <<"U+1FF9">>>>, <<<<"U+1F7A">>, <<"U+1FEA">>>>,
     <<<<"U+1F7B">>, <<"U+1FEB">>>>, <<<<"U+1F7C">>, <<"U+1FFA">>>>,
     <<<<"U+1F7D">>, <<"U+1FFB">>>>, <<<<"U+1F80">>, <<"U+1F08", "U+0399">>>>,
     <<<<"U+1F81">>, <<"U+1F09", "U+0399">>>>,
     <<<<"U+1F82">>, <<"U+1F0A", "U+0399">>>>,
     <<<<"U+1F83">>, <<"U+1F0B", "U+0399">>>>,
     <<<<"U+1F84">>, <<"U+1F0C", "U+0399">>>>,
     <<<<"U+1F85">>, <<"U+1F0D", "U+0399">>>>,
     <<<<"U+1F86">>, <<"U+1F0E", "U+0399">>>>,
     <<<<"U+1F87">>, <<"U+1F0F", "U+0399">>>>,
     <<<<"U+1F88">>, <<"U+1F08", "U+0399">>>>,
     <<<<"U+1F89">>, <<"U+1F09", "U+0399">>>>,
     <<<<"U+1F8A">>, <<"U+1F0A", "U+0399">>>>,
     <<<<"U+1F8B">>, <<"U+1F0B", "U+0399">>>>,
     <<<<"U+1F8C">>, <<"U+1F0C", "U+0399">>>>,
     <<<<"U+1F8D">>, <<"U+1F0D", "U+0399">>>>,
     <<<<"U+1F8E">>, <<"U+1F0E", "U+0399">>>>,
     <<<<"U+1F8F">>, <<"U+1F0F", "U+0399">>>>,
     <<<<"U+1F90">>, <<"U+1F28", "U+0399">>>>,
     <<<<"U+1F91">>, <<"U+1F29", "U+0399">>>>,
     <<<<"U+1F92">>, <<"U+1F2A", "U+0399">>>>,
     <<<<"U+1F93">>, <<"U+1F2B", "U+0399">>>>,
     <<<<"U+1F94">>, <<"U+1F2C", "U+0399">>>>,
     <<<<"U+1F95">>, <<"U+1F2D", "U+0399">>>>,
     <<<<"U+1F96">>, <<"U+1F2E", "U+0399">>>>,
     <<<<"U+1F97">>, <<"U+1F2F", "U+0399">>>>,
     <<<<"U+1F98">>, <<"U+1F28", "U+0399">>>>,
     <<<<"U+1F99">>, <<"U+1F29", "U+0399">>>>,
     <<<<"U+1F9A">>, <<"U+1F2A", "U+0399">>>>,
     <<<<"U+1F9B">>, <<"U+1F2B", "U+0399">>>>,
     <<<<"U+1F9C">>, <<"U+1F2C", "U+0399">>>>,
     <<<<"U+1F9D">>, <<"U+1F2D", "U+0399">>>>,
     <<<<"U+1F9E">>, <<"U+1F2E", "U+0399">>>>,
     <<<<"U+1F9F">>, <<"U+1F2F", "U+0399">>>>,
     <<<<"U+1FA0">>, <<"U+1F68", "U+0399">>>>,
     <<<<"U+1FA1">>, <<"U+1F69", "U+0399">>>>,
     <<<<"U+1FA2">>, <<"U+1F6A", "U+0399">>>>,
     <<<<"U+1FA3">>, <<"U+1F6B", "U+0399">>>>,
     <<<<"U+1FA4">>, <<"U+1F6C", "U+0399">>>>,
     <<<<"U+1FA5">>, <<"U+1F6D", "U+0399">>>>,
     <<<<"U+1FA6">>, <<"U+1F6E", "U+0399">>>>,
     <<<<"U+1FA7">>, <<"U+1F6F", "U+0399">>>>,
     <<<<"U+1FA8">>, <<"U+1F68", "U+0399">>>>,
     <<<<"U+1FA9">>, <<"U+1F69", "U+0399">>>>,
     <<<<"U+1FAA">>, <<"U+1F6A", "U+0399">>>>,
     <<<<"U+1FAB">>, <<"U+1F6B", "U+0399">>>>,
     <<<<"U+1FAC">>, <<"U+1F6C", "U+0399">>>>,
     <<<<"U+1FAD">>, <<"U+1F6D", "U+0399">>>>,
     <<<<"U+1FAE">>, <<"U+1F6E", "U+0399">>>>,
     <<<<"U+1FAF">>, <<"U+1F6F", "U+0399">>>>, <<<<"U+1FB0">>, <<"U+1FB8">>>>,
     <<<<"U+1FB1">>, <<"U+1FB9">>>>, <<<<"U+1FB2">>, <<"U+1FBA", "U+0399">>>>,
     <<<<"U+1FB3">>, <<"U+0391", "U+0399">>>>,
     <<<<"U+1FB4">>, <<"U+0386", "U+0399">>>>,
     <<<<"U+1FB6">>, <<"U+0391", "U+0342">>>>,
     <<<<"U+1FB7">>, <<"U+0391", "U+0342", "U+0399">>>>,
     <<<<"U+1FBC">>, <<"U+0391", "U+0399">>>>, <<<<"U+1FBE">>, <<"U+0399">>>>,
     <<<<"U+1FC2">>, <<"U+1FCA", "U+0399">>>>,
     <<<<"U+1FC3">>, <<"U+0397", "U+0399">>>>,
     <<<<"U+1FC4">>, <<"U+0389", "U+0399">>>>,
     <<<<"U+1FC6">>, <<"U+0397", "U+0342">>>>,
     <<<<"U+1FC7">>, <<"U+0397", "U+0342", "U+0399">>>>,
     <<<<"U+1FCC">>, <<"U+0397", "U+0399">>>>, <<<<"U+1FD0">>, <<"U+1FD8">>>>,
     <<<<"U+1FD1">>, <<"U+1FD9">>>>,
     <<<<"U+1FD2">>, <<"U+0399", "U+0308", "U+0300">>>>,
     <<<<"U+1FD3">>, <<"U+0399", "U+0308", "U+0301">>>>,
     <<<<"U+1FD6">>, <<"U+0399", "U+0342">>>>,
     <<<<"U+1FD7">>, <<"U+0399", "U+0308", "U+0342">>>>,
     <<<<"U+1FE0">>, <<"U+1FE8">>>>, <<<<"U+1FE1">>, <<"U+1FE9">>>>,
     <<<<"U+1FE2">>, <<"U+03A5", "U+0308", "U+0300">>>>,
     <<<<"U+1FE3">>, <<"U+03A5", "U+0308", "U+0301">>>>,
     <<<<"U+1FE4">>, <<"U+03A1", "U+0313">>>>, <<<<"U+1FE5">>, <<"U+1FEC">>>>,
     <<<<"U+1FE6">>, <<"U+03A5", "U+0342">>>>,
     <<<<"U+1FE7">>, <<"U+03A5", "U+0308", "U+0342">>>>,
     <<<<"U+1FF2">>, <<"U+1FFA", "U+0399">>>>,
     <<<<"U+1FF3">>, <<"U+03A9", "U+0399">>>>,
     <<<<"U+1FF4">>, <<"U+038F", "U+0399">>>>,
     <<<<"U+1FF6">>, <<"U+03A9", "U+0342">>>>,
     <<<<"U+1FF7">>, <<"U+03A9", "U+0342", "U+0399">>>>,
     <<<<"U+1FFC">>, <<"U+03A9", "U+0399">>>>, <<<<"U+214E">>, <<"U+2132">>>>,
     <<<<"U+2170">>, <<"U+2160">>>>, <<<<"U+2171">>, <<"U+2161">>>>,
     <<<<"U+2172">>, <<"U+2162">>>>, <<<<"U+2173">>, <<"U+2163">>>>,
     <<<<"U+2174">>, <<"U+2164">>>>, <<<<"U+2175">>, <<"U+2165">>>>,
     <<<<"U+2176">>, <<"U+2166">>>>, <<<<"U+2177">>, <<"U+2167">>>>,
     <<<<"U+2178">>, <<"U+2168">>>>, <<<<"U+2179">>, <<"U+2169">>>>,
     <<<<"U+217A">>, <<"U+216A">>>>, <<<<"U+217B">>, <<"U+216B">>>>,
     <<<<"U+217C">>, <<"U+216C">>>>, <<<<"U+217D">>, <<"U+216D">>>>,
     <<<<"U+217E">>, <<"U+216E">>>>, <<<<"U+217F">>, <<"U+216F">>>>,
     <<<<"U+2184">>, <<"U+2183">>>>, <<<<"U+24D0">>, <<"U+24B6">>>>,
     <<<<"U+24D1">>, <<"U+24B7">>>>, <<<<"U+24D2">>, <<"U+24B8">>>>,
     <<<<"U+24D3">>, <<"U+24B9">>>>, <<<<"U+24D4">>, <<"U+24BA">>>>,
     <<<<"U+24D5">>, <<"U+24BB">>>>, <<<<"U+24D6">>, <<"U+24BC">>>>,
     <<<<"U+24D7">>, <<"U+24BD">>>>, <<<<"U+24D8">>, <<"U+24BE">>>>,
     <<<<"U+24D9">>, <<"U+24BF">>>>, <<<<"U+24DA">>, <<"U+24C0">>>>,
     <<<<"U+24DB">>, <<"U+24C1">>>>, <<<<"U+24DC">>, <<"U+24C2">>>>,
     <<<<"U+24DD">>, <<"U+24C3">>>>, <<<<"U+24DE">>, <<"U+24C4">>>>,
     <<<<"U+24DF">>, <<"U+24C5">>>>, <<<<"U+24E0">>, <<"U+24C6">>>>,
     <<<<"U+24E1">>, <<"U+24C7">>>>, <<<<"U+24E2">>, <<"U+24C8">>>>,
     <<<<"U+24E3">>, <<"U+24C9">>>>, <<<<"U+24E4">>, <<"U+24CA">>>>,
     <<<<"U+24E5">>, <<"U+24CB">>>>, <<<<"U+24E6">>, <<"U+24CC">>>>,
     <<<<"U+24E7">>, <<"U+24CD">>>>, <<<<"U+24E8">>, <<"U+24CE">>>>,
     <<<<"U+24E9">>, <<"U+24CF">>>>, <<<<"U+2C30">>, <<"U+2C00">>>>,
     <<<<"U+2C31">>, <<"U+2C01">>>>, <<<<"U+2C32">>, <<"U+2C02">>>>,
     <<<<"U+2C33">>, <<"U+2C03">>>>, <<<<"U+2C34">>, <<"U+2C04">>>>,
     <<<<"U+2C35">>, <<"U+2C05">>>>, <<<<"U+2C36">>, <<"U+2C06">>>>,
     <<<<"U+2C37">>, <<"U+2C07">>>>, <<<<"U+2C38">>, <<"U+2C08">>>>,
     <<<<"U+2C39">>, <<"U+2C09">>>>, <<<<"U+2C3A">>, <<"U+2C0A">>>>,
     <<<<"U+2C3B">>, <<"U+2C0B">>>>, <<<<"U+2C3C">>, <<"U+2C0C">>>>,
     <<<<"U+2C3D">>, <<"U+2C0D">>>>, <<<<"U+2C3E">>, <<"U+2C0E">>>>,
     <<<<"U+2C3F">>, <<"U+2C0F">>>>, <<<<"U+2C40">>, <<"U+2C10">>>>,
     <<<<"U+2C41">>, <<"U+2C11">>>>, <<<<"U+2C42">>, <<"U+2C12">>>>,
     <<<<"U+2C43">>, <<"U+2C13">>>>, <<<<"U+2C44">>, <<"U+2C14">>>>,
     <<<<"U+2C45">>, <<"U+2C15">>>>, <<<<"U+2C46">>, <<"U+2C16">>>>,
     <<<<"U+2C47">>, <<"U+2C17">>>>, <<<<"U+2C48">>, <<"U+2C18">>>>,
     <<<<"U+2C49">>, <<"U+2C19">>>>, <<<<"U+2C4A">>, <<"U+2C1A">>>>,
     <<<<"U+2C4B">>, <<"U+2C1B">>>>, <<<<"U+2C4C">>, <<"U+2C1C">>>>,
     <<<<"U+2C4D">>, <<"U+2C1D">>>>, <<<<"U+2C4E">>, <<"U+2C1E">>>>,
     <<<<"U+2C4F">>, <<"U+2C1F">>>>, <<<<"U+2C50">>, <<"U+2C20">>>>,
     <<<<"U+2C51">>, <<"U+2C21">>>>, <<<<"U+2C52">>, <<"U+2C22">>>>,
     <<<<"U+2C53">>, <<"U+2C23">>>>, <<<<"U+2C54">>, <<"U+2C24">>>>,
     <<<<"U+2C55">>, <<"U+2C25">>>>, <<<<"U+2C56">>, <<"U+2C26">>>>,
     <<<<"U+2C57">>, <<"U+2C27">>>>, <<<<"U+2C58">>, <<"U+2C28">>>>,
     <<<<"U+2C59">>, <<"U+2C29">>>>, <<<<"U+2C5A">>, <<"U+2C2A">>>>,
     <<<<"U+2C5B">>, <<"U+2C2B">>>>, <<<<"U+2C5C">>, <<"U+2C2C">>>>,
     <<<<"U+2C5D">>, <<"U+2C2D">>>>, <<<<"U+2C5E">>, <<"U+2C2E">>>>,
     <<<<"U+2C5F">>, <<"U+2C2F">>>>, <<<<"U+2C61">>, <<"U+2C60">>>>,
     <<<<"U+2C65">>, <<"U+023A">>>>, <<<<"U+2C66">>, <<"U+023E">>>>,
     <<<<"U+2C68">>, <<"U+2C67">>>>, <<<<"U+2C6A">>, <<"U+2C69">>>>,
     <<<<"U+2C6C">>, <<"U+2C6B">>>>, <<<<"U+2C73">>, <<"U+2C72">>>>,
     <<<<"U+2C76">>, <<"U+2C75">>>>, <<<<"U+2C81">>, <<"U+2C80">>>>,
     <<<<"U+2C83">>, <<"U+2C82">>>>, <<<<"U+2C85">>, <<"U+2C84">>>>,
     <<<<"U+2C87">>, <<"U+2C86">>>>, <<<<"U+2C89">>, <<"U+2C88">>>>,
     <<<<"U+2C8B">>, <<"U+2C8A">>>>, <<<<"U+2C8D">>, <<"U+2C8C">>>>,
     <<<<"U+2C8F">>, <<"U+2C8E">>>>, <<<<"U+2C91">>, <<"U+2C90">>>>,
     <<<<"U+2C93">>, <<"U+2C92">>>>, <<<<"U+2C95">>, <<"U+2C94">>>>,
     <<<<"U+2C97">>, <<"U+2C96">>>>, <<<<"U+2C99">>, <<"U+2C98">>>>,
     <<<<"U+2C9B">>, <<"U+2C9A">>>>, <<<<"U+2C9D">>, <<"U+2C9C">>>>,
     <<<<"U+2C9F">>, <<"U+2C9E">>>>, <<<<"U+2CA1">>, <<"U+2CA0">>>>,
     <<<<"U+2CA3">>, <<"U+2CA2">>>>, <<<<"U+2CA5">>, <<"U+2CA4">>>>,
     <<<<"U+2CA7">>, <<"U+2CA6">>>>, <<<<"U+2CA9">>, <<"U+2CA8">>>>,
     <<<<"U+2CAB">>, <<"U+2CAA">>>>, <<<<"U+2CAD">>, <<"U+2CAC">>>>,
     <<<<"U+2CAF">>, <<"U+2CAE">>>>, <<<<"U+2CB1">>, <<"U+2CB0">>>>,
     <<<<"U+2CB3">>, <<"U+2CB2">>>>, <<<<"U+2CB5">>, <<"U+2CB4">>>>,
     <<<<"U+2CB7">>, <<"U+2CB6">>>>, <<<<"U+2CB9">>, <<"U+2CB8">>>>,
     <<<<"U+2CBB">>, <<"U+2CBA">>>>, <<<<"U+2CBD">>, <<"U+2CBC">>>>,
     <<<<"U+2CBF">>, <<"U+2CBE">>>>, <<<<"U+2CC1">>, <<"U+2CC0">>>>,
     <<<<"U+2CC3">>, <<"U+2CC2">>>>, <<<<"U+2CC5">>, <<"U+2CC4">>>>,
     <<<<"U+2CC7">>, <<"U+2CC6">>>>, <<<<"U+2CC9">>, <<"U+2CC8">>>>,
     <<<<"U+2CCB">>, <<"U+2CCA">>>>, <<<<"U+2CCD">>, <<"U+2CCC">>>>,
     <<<<"U+2CCF">>, <<"U+2CCE">>>>, <<<<"U+2CD1">>, <<"U+2CD0">>>>,
     <<<<"U+2CD3">>, <<"U+2CD2">>>>, <<<<"U+2CD5">>, <<"U+2CD4">>>>,
     <<<<"U+2CD7">>, <<"U+2CD6">>>>, <<<<"U+2CD9">>, <<"U+2CD8">>>>,
     <<<<"U+2CDB">>, <<"U+2CDA">>>>, <<<<"U+2CDD">>, <<"U+2CDC">>>>,
     <<<<"U+2CDF">>, <<"U+2CDE">>>>, <<<<"U+2CE1">>, <<"U+2CE0">>>>,
     <<<<"U+2CE3">>, <<"U+2CE2">>>>, <<<<"U+2CEC">>, <<"U+2CEB">>>>,
     <<<<"U+2CEE">>, <<"U+2CED">>>>, <<<<"U+2CF3">>, <<"U+2CF2">>>>,
     <<<<"U+2D00">>, <<"U+10A0">>>>, <<<<"U+2D01">>, <<"U+10A1">>>>,
     <<<<"U+2D02">>, <<"U+10A2">>>>, <<<<"U+2D03">>, <<"U+10A3">>>>,
     <<<<"U+2D04">>, <<"U+10A4">>>>, <<<<"U+2D05">>, <<"U+10A5">>>>,
     <<<<"U+2D06">>, <<"U+10A6">>>>, <<<<"U+2D07">>, <<"U+10A7">>>>,
     <<<<"U+2D08">>, <<"U+10A8">>>>, <<<<"U+2D09">>, <<"U+10A9">>>>,
     <<<<"U+2D0A">>, <<"U+10AA">>>>, <<<<"U+2D0B">>, <<"U+10AB">>>>,
     <<<<"U+2D0C">>, <<"U+10AC">>>>, <<<<"U+2D0D">>, <<"U+10AD">>>>,
     <<<<"U+2D0E">>, <<"U+10AE">>>>, <<<<"U+2D0F">>, <<"U+10AF">>>>,
     <<<<"U+2D10">>, <<"U+10B0">>>>, <<<<"U+2D11">>, <<"U+10B1">>>>,
     <<<<"U+2D12">>, <<"U+10B2">>>>, <<<<"U+2D13">>, <<"U+10B3">>>>,
     <<<<"U+2D14">>, <<"U+10B4">>>>, <<<<"U+2D15">>, <<"U+10B5">>>>,
     <<<<"U+2D16">>, <<"U+10B6">>>>, <<<<"U+2D17">>, <<"U+10B7">>>>,
     <<<<"U+2D18">>, <<"U+10B8">>>>, <<<<"U+2D19">>, <<"U+10B9">>>>,
     <<<<"U+2D1A">>, <<"U+10BA">>>>, <<<<"U+2D1B">>, <<"U+10BB">>>>,
     <<<<"U+2D1C">>, <<"U+10BC">>>>, <<<<"U+2D1D">>, <<"U+10BD">>>>,
     <<<<"U+2D1E">>, <<"U+10BE">>>>, <<<<"U+2D1F">>, <<"U+10BF">>>>,
     <<<<"U+2D20">>, <<"U+10C0">>>>, <<<<"U+2D21">>, <<"U+10C1">>>>,
     <<<<"U+2D22">>, <<"U+10C2">>>>, <<<<"U+2D23">>, <<"U+10C3">>>>,
     <<<<"U+2D24">>, <<"U+10C4">>>>, <<<<"U+2D25">>, <<"U+10C5">>>>,
     <<<<"U+2D27">>, <<"U+10C7">>>>, <<<<"U+2D2D">>, <<"U+10CD">>>>,
     <<<<"U+A641">>, <<"U+A640">>>>, <<<<"U+A643">>, <<"U+A642">>>>,
     <<<<"U+A645">>, <<"U+A644">>>>, <<<<"U+A647">>, <<"U+A646">>>>,
     <<<<"U+A649">>, <<"U+A648">>>>, <<<<"U+A64B">>, <<"U+A64A">>>>,
     <<<<"U+A64D">>, <<"U+A64C">>>>, <<<<"U+A64F">>, <<"U+A64E">>>>,
     <<<<"U+A651">>, <<"U+A650">>>>, <<<<"U+A653">>, <<"U+A652">>>>,
     <<<<"U+A655">>, <<"U+A654">>>>, <<<<"U+A657">>, <<"U+A656">>>>,
     <<<<"U+A659">>, <<"U+A658">>>>, <<<<"U+A65B">>, <<"U+A65A">>>>,
     <<<<"U+A65D">>, <<"U+A65C">>>>, <<<<"U+A65F">>, <<"U+A65E">>>>,
     <<<<"U+A661">>, <<"U+A660">>>>, <<<<"U+A663">>, <<"U+A662">>>>,
     <<<<"U+A665">>, <<"U+A664">>>>, <<<<"U+A667">>, <<"U+A666">>>>,
     <<<<"U+A669">>, <<"U+A668">>>>, <<<<"U+A66B">>, <<"U+A66A">>>>,
     <<<<"U+A66D">>, <<"U+A66C">>>>, <<<<"U+A681">>, <<"U+A680">>>>,
     <<<<"U+A683">>, <<"U+A682">>>>, <<<<"U+A685">>, <<"U+A684">>>>,
     <<<<"U+A687">>, <<"U+A686">>>>, <<<<"U+A689">>, <<"U+A688">>>>,
     <<<<"U+A68B">>, <<"U+A68A">>>>, <<<<"U+A68D">>, <<"U+A68C">>>>,
     <<<<"U+A68F">>, <<"U+A68E">>>>, <<<<"U+A691">>, <<"U+A690">>>>,
     <<<<"U+A693">>, <<"U+A692">>>>, <<<<"U+A695">>, <<"U+A694">>>>,
     <<<<"U+A697">>, <<"U+A696">>>>, <<<<"U+A699">>, <<"U+A698">>>>,
     <<<<"U+A69B">>, <<"U+A69A">>>>, <<<<"U+A723">>, <<"U+A722">>>>,
     <<<<"U+A725">>, <<"U+A724">>>>, <<<<"U+A727">>, <<"U+A726">>>>,
     <<<<"U+A729">>, <<"U+A728">>>>, <<<<"U+A72B">>, <<"U+A72A">>>>,
     <<<<"U+A72D">>, <<"U+A72C">>>>, <<<<"U+A72F">>, <<"U+A72E">>>>,
     <<<<"U+A733">>, <<"U+A732">>>>, <<<<"U+A735">>, <<"U+A734">>>>,
     <<<<"U+A737">>, <<"U+A736">>>>, <<<<"U+A739">>, <<"U+A738">>>>,
     <<<<"U+A73B">>, <<"U+A73A">>>>, <<<<"U+A73D">>, <<"U+A73C">>>>,
     <<<<"U+A73F">>, <<"U+A73E">>>>, <<<<"U+A741">>, <<"U+A740">>>>,
     <<<<"U+A743">>, <<"U+A742">>>>, <<<<"U+A745">>, <<"U+A744">>>>,
     <<<<"U+A747">>, <<"U+A746">>>>, <<<<"U+A749">>, <<"U+A748">>>>,
     <<<<"U+A74B">>, <<"U+A74A">>>>, <<<<"U+A74D">>, <<"U+A74C">>>>,
     <<<<"U+A74F">>, <<"U+A74E">>>>, <<<<"U+A751">>, <<"U+A750">>>>,
     <<<<"U+A753">>, <<"U+A752">>>>, <<<<"U+A755">>, <<"U+A754">>>>,
     <<<<"U+A757">>, <<"U+A756">>>>, <<<<"U+A759">>, <<"U+A758">>>>,
     <<<<"U+A75B">>, <<"U+A75A">>>>, <<<<"U+A75D">>, <<"U+A75C">>>>,
     <<<<"U+A75F">>, <<"U+A75E">>>>, <<<<"U+A761">>, <<"U+A760">>>>,
     <<<<"U+A763">>, <<"U+A762">>>>, <<<<"U+A765">>, <<"U+A764">>>>,
     <<<<"U+A767">>, <<"U+A766">>>>, <<<<"U+A769">>, <<"U+A768">>>>,
     <<<<"U+A76B">>, <<"U+A76A">>>>, <<<<"U+A76D">>, <<"U+A76C">>>>,
     <<<<"U+A76F">>, <<"U+A76E">>>>, <<<<"U+A77A">>, <<"U+A779">>>>,
     <<<<"U+A77C">>, <<"U+A77B">>>>, <<<<"U+A77F">>, <<"U+A77E">>>>,
     <<<<"U+A781">>, <<"U+A780">>>>, <<<<"U+A783">>, <<"U+A782">>>>,
     <<<<"U+A785">>, <<"U+A784">>>>, <<<<"U+A787">>, <<"U+A786">>>>,
     <<<<"U+A78C">>, <<"U+A78B">>>>, <<<<"U+A791">>, <<"U+A790">>>>,
     <<<<"U+A793">>, <<"U+A792">>>>, <<<<"U+A794">>, <<"U+A7C4">>>>,
     <<<<"U+A797">>, <<"U+A796">>>>, <<<<"U+A799">>, <<"U+A798">>>>,
     <<<<"U+A79B">>, <<"U+A79A">>>>, <<<<"U+A79D">>, <<"U+A79C">>>>,
     <<<<"U+A79F">>, <<"U+A79E">>>>, <<<<"U+A7A1">>, <<"U+A7A0">>>>,
     <<<<"U+A7A3">>, <<"U+A7A2">>>>, <<<<"U+A7A5">>, <<"U+A7A4">>>>,
     <<<<"U+A7A7">>, <<"U+A7A6">>>>, <<<<"U+A7A9">>, <<"U+A7A8">>>>,
     <<<<"U+A7B5">>, <<"U+A7B4">>>>, <<<<"U+A7B7">>, <<"U+A7B6">>>>,
     <<<<"U+A7B9">>, <<"U+A7B8">>>>, <<<<"U+A7BB">>, <<"U+A7BA">>>>,
     <<<<"U+A7BD">>, <<"U+A7BC">>>>, <<<<"U+A7BF">>, <<"U+A7BE">>>>,
     <<<<"U+A7C1">>, <<"U+A7C0">>>>, <<<<"U+A7C3">>, <<"U+A7C2">>>>,
     <<<<"U+A7C8">>, <<"U+A7C7">>>>, <<<<"U+A7CA">>, <<"U+A7C9">>>>,
     <<<<"U+A7CD">>, <<"U+A7CC">>>>, <<<<"U+A7CF">>, <<"U+A7CE">>>>,
     <<<<"U+A7D1">>, <<"U+A7D0">>>>, <<<<"U+A7D3">>, <<"U+A7D2">>>>,
     <<<<"U+A7D5">>, <<"U+A7D4">>>>, <<<<"U+A7D7">>, <<"U+A7D6">>>>,
     <<<<"U+A7D9">>, <<"U+A7D8">>>>, <<<<"U+A7DB">>, <<"U+A7DA">>>>,
     <<<<"U+A7F6">>, <<"U+A7F5">>>>, <<<<"U+AB53">>, <<"U+A7B3">>>>,
     <<<<"U+AB70">>, <<"U+13A0">>>>, <<<<"U+AB71">>, <<"U+13A1">>>>,
     <<<<"U+AB72">>, <<"U+13A2">>>>, <<<<"U+AB73">>, <<"U+13A3">>>>,
     <<<<"U+AB74">>, <<"U+13A4">>>>, <<<<"U+AB75">>, <<"U+13A5">>>>,
     <<<<"U+AB76">>, <<"U+13A6">>>>, <<<<"U+AB77">>, <<"U+13A7">>>>,
     <<<<"U+AB78">>, <<"U+13A8">>>>, <<<<"U+AB79">>, <<"U+13A9">>>>,
     <<<<"U+AB7A">>, <<"U+13AA">>>>, <<<<"U+AB7B">>, <<"U+13AB">>>>,
     <<<<"U+AB7C">>, <<"U+13AC">>>>, <<<<"U+AB7D">>, <<"U+13AD">>>>,
     <<<<"U+AB7E">>, <<"U+13AE">>>>, <<<<"U+AB7F">>, <<"U+13AF">>>>,
     <<<<"U+AB80">>, <<"U+13B0">>>>, <<<<"U+AB81">>, <<"U+13B1">>>>,
     <<<<"U+AB82">>, <<"U+13B2">>>>, <<<<"U+AB83">>, <<"U+13B3">>>>,
     <<<<"U+AB84">>, <<"U+13B4">>>>, <<<<"U+AB85">>, <<"U+13B5">>>>,
     <<<<"U+AB86">>, <<"U+13B6">>>>, <<<<"U+AB87">>, <<"U+13B7">>>>,
     <<<<"U+AB88">>, <<"U+13B8">>>>, <<<<"U+AB89">>, <<"U+13B9">>>>,
     <<<<"U+AB8A">>, <<"U+13BA">>>>, <<<<"U+AB8B">>, <<"U+13BB">>>>,
     <<<<"U+AB8C">>, <<"U+13BC">>>>, <<<<"U+AB8D">>, <<"U+13BD">>>>,
     <<<<"U+AB8E">>, <<"U+13BE">>>>, <<<<"U+AB8F">>, <<"U+13BF">>>>,
     <<<<"U+AB90">>, <<"U+13C0">>>>, <<<<"U+AB91">>, <<"U+13C1">>>>,
     <<<<"U+AB92">>, <<"U+13C2">>>>, <<<<"U+AB93">>, <<"U+13C3">>>>,
     <<<<"U+AB94">>, <<"U+13C4">>>>, <<<<"U+AB95">>, <<"U+13C5">>>>,
     <<<<"U+AB96">>, <<"U+13C6">>>>, <<<<"U+AB97">>, <<"U+13C7">>>>,
     <<<<"U+AB98">>, <<"U+13C8">>>>, <<<<"U+AB99">>, <<"U+13C9">>>>,
     <<<<"U+AB9A">>, <<"U+13CA">>>>, <<<<"U+AB9B">>, <<"U+13CB">>>>,
     <<<<"U+AB9C">>, <<"U+13CC">>>>, <<<<"U+AB9D">>, <<"U+13CD">>>>,
     <<<<"U+AB9E">>, <<"U+13CE">>>>, <<<<"U+AB9F">>, <<"U+13CF">>>>,
     <<<<"U+ABA0">>, <<"U+13D0">>>>, <<<<"U+ABA1">>, <<"U+13D1">>>>,
     <<<<"U+ABA2">>, <<"U+13D2">>>>, <<<<"U+ABA3">>, <<"U+13D3">>>>,
     <<<<"U+ABA4">>, <<"U+13D4">>>>, <<<<"U+ABA5">>, <<"U+13D5">>>>,
     <<<<"U+ABA6">>, <<"U+13D6">>>>, <<<<"U+ABA7">>, <<"U+13D7">>>>,
     <<<<"U+ABA8">>, <<"U+13D8">>>>, <<<<"U+ABA9">>, <<"U+13D9">>>>,
     <<<<"U+ABAA">>, <<"U+13DA">>>>, <<<<"U+ABAB">>, <<"U+13DB">>>>,
     <<<<"U+ABAC">>, <<"U+13DC">>>>, <<<<"U+ABAD">>, <<"U+13DD">>>>,
     <<<<"U+ABAE">>, <<"U+13DE">>>>, <<<<"U+ABAF">>, <<"U+13DF">>>>,
     <<<<"U+ABB0">>, <<"U+13E0">>>>, <<<<"U+ABB1">>, <<"U+13E1">>>>,
     <<<<"U+ABB2">>, <<"U+13E2">>>>, <<<<"U+ABB3">>, <<"U+13E3">>>>,
     <<<<"U+ABB4">>, <<"U+13E4">>>>, <<<<"U+ABB5">>, <<"U+13E5">>>>,
     <<<<"U+ABB6">>, <<"U+13E6">>>>, <<<<"U+ABB7">>, <<"U+13E7">>>>,
     <<<<"U+ABB8">>, <<"U+13E8">>>>, <<<<"U+ABB9">>, <<"U+13E9">>>>,
     <<<<"U+ABBA">>, <<"U+13EA">>>>, <<<<"U+ABBB">>, <<"U+13EB">>>>,
     <<<<"U+ABBC">>, <<"U+13EC">>>>, <<<<"U+ABBD">>, <<"U+13ED">>>>,
     <<<<"U+ABBE">>, <<"U+13EE">>>>, <<<<"U+ABBF">>, <<"U+13EF">>>>,
     <<<<"U+FB00">>, <<"F", "F">>>>, <<<<"U+FB01">>, <<"F", "I">>>>,
     <<<<"U+FB02">>, <<"F", "L">>>>, <<<<"U+FB03">>, <<"F", "F", "I">>>>,
     <<<<"U+FB04">>, <<"F", "F", "L">>>>, <<<<"U+FB05">>, <<"S", "T">>>>,
     <<<<"U+FB06">>, <<"S", "T">>>>, <<<<"U+FB13">>, <<"U+0544", "U+0546">>>>,
     <<<<"U+FB14">>, <<"U+0544", "U+0535">>>>,
     <<<<"U+FB15">>, <<"U+0544", "U+053B">>>>,
     <<<<"U+FB16">>, <<"U+054E", "U+0546">>>>,
     <<<<"U+FB17">>, <<"U+0544", "U+053D">>>>, <<<<"U+FF41">>, <<"U+FF21">>>>,
     <<<<"U+FF42">>, <<"U+FF22">>>>, <<<<"U+FF43">>, <<"U+FF23">>>>,
     <<<<"U+FF44">>, <<"U+FF24">>>>, <<<<"U+FF45">>, <<"U+FF25">>>>,
     <<<<"U+FF46">>, <<"U+FF26">>>>, <<<<"U+FF47">>, <<"U+FF27">>>>,
     <<<<"U+FF48">>, <<"U+FF28">>>>, <<<<"U+FF49">>, <<"U+FF29">>>>,
     <<<<"U+FF4A">>, <<"U+FF2A">>>>, <<<<"U+FF4B">>, <<"U+FF2B">>>>,
     <<<<"U+FF4C">>, <<"U+FF2C">>>>, <<<<"U+FF4D">>, <<"U+FF2D">>>>,
     <<<<"U+FF4E">>, <<"U+FF2E">>>>, <<<<"U+FF4F">>, <<"U+FF2F">>>>,
     <<<<"U+FF50">>, <<"U+FF30">>>>, <<<<"U+FF51">>, <<"U+FF31">>>>,
     <<<<"U+FF52">>, <<"U+FF32">>>>, <<<<"U+FF53">>, <<"U+FF33">>>>,
     <<<<"U+FF54">>, <<"U+FF34">>>>, <<<<"U+FF55">>, <<"U+FF35">>>>,
     <<<<"U+FF56">>, <<"U+FF36">>>>, <<<<"U+FF57">>, <<"U+FF37">>>>,
     <<<<"U+FF58">>, <<"U+FF38">>>>, <<<<"U+FF59">>, <<"U+FF39">>>>,
     <<<<"U+FF5A">>, <<"U+FF3A">>>>,
     <<<<"U+D801", "U+DC28">>, <<"U+D801", "U+DC00">>>>,
     <<<<"U+D801", "U+DC29">>, <<"U+D801", "U+DC01">>>>,
     <<<<"U+D801", "U+DC2A">>, <<"U+D801", "U+DC02">>>>,
     <<<<"U+D801", "U+DC2B">>, <<"U+D801", "U+DC03">>>>,
     <<<<"U+D801", "U+DC2C">>, <<"U+D801", "U+DC04">>>>,
     <<<<"U+D801", "U+DC2D">>, <<"U+D801", "U+DC05">>>>,
     <<<<"U+D801", "U+DC2E">>, <<"U+D801", "U+DC06">>>>,
     <<<<"U+D801", "U+DC2F">>, <<"U+D801", "U+DC07">>>>,
     <<<<"U+D801", "U+DC30">>, <<"U+D801", "U+DC08">>>>,
     <<<<"U+D801", "U+DC31">>, <<"U+D801", "U+DC09">>>>,
     <<<<"U+D801", "U+DC32">>, <<"U+D801", "U+DC0A">>>>,
     <<<<"U+D801", "U+DC33">>, <<"U+D801", "U+DC0B">>>>,
     <<<<"U+D801", "U+DC34">>, <<"U+D801", "U+DC0C">>>>,
     <<<<"U+D801", "U+DC35">>, <<"U+D801", "U+DC0D">>>>,
     <<<<"U+D801", "U+DC36">>, <<"U+D801", "U+DC0E">>>>,
     <<<<"U+D801", "U+DC37">>, <<"U+D801", "U+DC0F">>>>,
     <<<<"U+D801", "U+DC38">>, <<"U+D801", "U+DC10">>>>,
     <<<<"U+D801", "U+DC39">>, <<"U+D801", "U+DC11">>>>,
     <<<<"U+D801", "U+DC3A">>, <<"U+D801", "U+DC12">>>>,
     <<<<"U+D801", "U+DC3B">>, <<"U+D801", "U+DC13">>>>,
     <<<<"U+D801", "U+DC3C">>, <<"U+D801", "U+DC14">>>>,
     <<<<"U+D801", "U+DC3D">>, <<"U+D801", "U+DC15">>>>,
     <<<<"U+D801", "U+DC3E">>, <<"U+D801", "U+DC16">>>>,
     <<<<"U+D801", "U+DC3F">>, <<"U+D801", "U+DC17">>>>,
     <<<<"U+D801", "U+DC40">>, <<"U+D801", "U+DC18">>>>,
     <<<<"U+D801", "U+DC41">>, <<"U+D801", "U+DC19">>>>,
     <<<<"U+D801", "U+DC42">>, <<"U+D801", "U+DC1A">>>>,
     <<<<"U+D801", "U+DC43">>, <<"U+D801", "U+DC1B">>>>,
     <<<<"U+D801", "U+DC44">>, <<"U+D801", "U+DC1C">>>>,
     <<<<"U+D801", "U+DC45">>, <<"U+D801", "U+DC1D">>>>,
     <<<<"U+D801", "U+DC46">>, <<"U+D801", "U+DC1E">>>>,
     <<<<"U+D801", "U+DC47">>, <<"U+D801", "U+DC1F">>>>,
     <<<<"U+D801", "U+DC48">>, <<"U+D801", "U+DC20">>>>,
     <<<<"U+D801", "U+DC49">>, <<"U+D801", "U+DC21">>>>,
     <<<<"U+D801", "U+DC4A">>, <<"U+D801", "U+DC22">>>>,
     <<<<"U+D801", "U+DC4B">>, <<"U+D801", "U+DC23">>>>,
     <<<<"U+D801", "U+DC4C">>, <<"U+D801", "U+DC24">>>>,
     <<<<"U+D801", "U+DC4D">>, <<"U+D801", "U+DC25">>>>,
     <<<<"U+D801", "U+DC4E">>, <<"U+D801", "U+DC26">>>>,
     <<<<"U+D801", "U+DC4F">>, <<"U+D801", "U+DC27">>>>,
     <<<<"U+D801", "U+DCD8">>, <<"U+D801", "U+DCB0">>>>,
     <<<<"U+D801", "U+DCD9">>, <<"U+D801", "U+DCB1">>>>,
     <<<<"U+D801", "U+DCDA">>, <<"U+D801", "U+DCB2">>>>,
     <<<<"U+D801", "U+DCDB">>, <<"U+D801", "U+DCB3">>>>,
     <<<<"U+D801", "U+DCDC">>, <<"U+D801", "U+DCB4">>>>,
     <<<<"U+D801", "U+DCDD">>, <<"U+D801", "U+DCB5">>>>,
     <<<<"U+D801", "U+DCDE">>, <<"U+D801", "U+DCB6">>>>,
     <<<<"U+D801", "U+DCDF">>, <<"U+D801", "U+DCB7">>>>,
     <<<<"U+D801", "U+DCE0">>, <<"U+D801", "U+DCB8">>>>,
     <<<<"U+D801", "U+DCE1">>, <<"U+D801", "U+DCB9">>>>,
     <<<<"U+D801", "U+DCE2">>, <<"U+D801", "U+DCBA">>>>,
     <<<<"U+D801", "U+DCE3">>, <<"U+D801", "U+DCBB">>>>,
     <<<<"U+D801", "U+DCE4">>, <<"U+D801", "U+DCBC">>>>,
     <<<<"U+D801", "U+DCE5">>, <<"U+D801", "U+DCBD">>>>,
     <<<<"U+D801", "U+DCE6">>, <<"U+D801", "U+DCBE">>>>,
     <<<<"U+D801", "U+DCE7">>, <<"U+D801", "U+DCBF">>>>,
     <<<<"U+D801", "U+DCE8">>, <<"U+D801", "U+DCC0">>>>,
     <<<<"U+D801", "U+DCE9">>, <<"U+D801", "U+DCC1">>>>,
     <<<<"U+D801", "U+DCEA">>, <<"U+D801", "U+DCC2">>>>,
     <<<<"U+D801", "U+DCEB">>, <<"U+D801", "U+DCC3">>>>,
     <<<<"U+D801", "U+DCEC">>, <<"U+D801", "U+DCC4">>>>,
     <<<<"U+D801", "U+DCED">>, <<"U+D801", "U+DCC5">>>>,
     <<<<"U+D801", "U+DCEE">>, <<"U+D801", "U+DCC6">>>>,
     <<<<"U+D801", "U+DCEF">>, <<"U+D801", "U+DCC7">>>>,
     <<<<"U+D801", "U+DCF0">>, <<"U+D801", "U+DCC8">>>>,
     <<<<"U+D801", "U+DCF1">>, <<"U+D801", "U+DCC9">>>>,
     <<<<"U+D801", "U+DCF2">>, <<"U+D801", "U+DCCA">>>>,
     <<<<"U+D801", "U+DCF3">>, <<"U+D801", "U+DCCB">>>>,
     <<<<"U+D801", "U+DCF4">>, <<"U+D801", "U+DCCC">>>>,
     <<<<"U+D801", "U+DCF5">>, <<"U+D801", "U+DCCD">>>>,
     <<<<"U+D801", "U+DCF6">>, <<"U+D801", "U+DCCE">>>>,
     <<<<"U+D801", "U+DCF7">>, <<"U+D801", "U+DCCF">>>>,
     <<<<"U+D801", "U+DCF8">>, <<"U+D801", "U+DCD0">>>>,
     <<<<"U+D801", "U+DCF9">>, <<"U+D801", "U+DCD1">>>>,
     <<<<"U+D801", "U+DCFA">>, <<"U+D801", "U+DCD2">>>>,
     <<<<"U+D801", "U+DCFB">>, <<"U+D801", "U+DCD3">>>>,
     <<<<"U+D801", "U+DD97">>, <<"U+D801", "U+DD70">>>>,
     <<<<"U+D801", "U+DD98">>, <<"U+D801", "U+DD71">>>>,
     <<<<"U+D801", "U+DD99">>, <<"U+D801", "U+DD72">>>>,
     <<<<"U+D801", "U+DD9A">>, <<"U+D801", "U+DD73">>>>,
     <<<<"U+D801", "U+DD9B">>, <<"U+D801", "U+DD74">>>>,
     <<<<"U+D801", "U+DD9C">>, <<"U+D801", "U+DD75">>>>,
     <<<<"U+D801", "U+DD9D">>, <<"U+D801", "U+DD76">>>>,
     <<<<"U+D801", "U+DD9E">>, <<"U+D801", "U+DD77">>>>,
     <<<<"U+D801", "U+DD9F">>, <<"U+D801", "U+DD78">>>>,
     <<<<"U+D801", "U+DDA0">>, <<"U+D801", "U+DD79">>>>,
     <<<<"U+D801", "U+DDA1">>, <<"U+D801", "U+DD7A">>>>,
     <<<<"U+D801", "U+DDA3">>, <<"U+D801", "U+DD7C">>>>,
     <<<<"U+D801", "U+DDA4">>, <<"U+D801", "U+DD7D">>>>,
     <<<<"U+D801", "U+DDA5">>, <<"U+D801", "U+DD7E">>>>,
     <<<<"U+D801", "U+DDA6">>, <<"U+D801", "U+DD7F">>>>,
     <<<<"U+D801", "U+DDA7">>, <<"U+D801", "U+DD80">>>>,
     <<<<"U+D801", "U+DDA8">>, <<"U+D801", "U+DD81">>>>,
     <<<<"U+D801", "U+DDA9">>, <<"U+D801", "U+DD82">>>>,
     <<<<"U+D801", "U+DDAA">>, <<"U+D801", "U+DD83">>>>,
     <<<<"U+D801", "U+DDAB">>, <<"U+D801", "U+DD84">>>>,
     <<<<"U+D801", "U+DDAC">>, <<"U+D801", "U+DD85">>>>,
     <<<<"U+D801", "U+DDAD">>, <<"U+D801", "U+DD86">>>>,
     <<<<"U+D801", "U+DDAE">>, <<"U+D801", "U+DD87">>>>,
     <<<<"U+D801", "U+DDAF">>, <<"U+D801", "U+DD88">>>>,
     <<<<"U+D801", "U+DDB0">>, <<"U+D801", "U+DD89">>>>,
     <<<<"U+D801", "U+DDB1">>, <<"U+D801", "U+DD8A">>>>,
     <<<<"U+D801", "U+DDB3">>, <<"U+D801", "U+DD8C">>>>,
     <<<<"U+D801", "U+DDB4">>, <<"U+D801", "U+DD8D">>>>,
     <<<<"U+D801", "U+DDB5">>, <<"U+D801", "U+DD8E">>>>,
     <<<<"U+D801", "U+DDB6">>, <<"U+D801", "U+DD8F">>>>,
     <<<<"U+D801", "U+DDB7">>, <<"U+D801", "U+DD90">>>>,
     <<<<"U+D801", "U+DDB8">>, <<"U+D801", "U+DD91">>>>,
     <<<<"U+D801", "U+DDB9">>, <<"U+D801", "U+DD92">>>>,
     <<<<"U+D801", "U+DDBB">>, <<"U+D801", "U+DD94">>>>,
     <<<<"U+D801", "U+DDBC">>, <<"U+D801", "U+DD95">>>>,
     <<<<"U+D803", "U+DCC0">>, <<"U+D803", "U+DC80">>>>,
     <<<<"U+D803", "U+DCC1">>, <<"U+D803", "U+DC81">>>>,
     <<<<"U+D803", "U+DCC2">>, <<"U+D803", "U+DC82">>>>,
     <<<<"U+D803", "U+DCC3">>, <<"U+D803", "U+DC83">>>>,
     <<<<"U+D803", "U+DCC4">>, <<"U+D803", "U+DC84">>>>,
     <<<<"U+D803", "U+DCC5">>, <<"U+D803", "U+DC85">>>>,
     <<<<"U+D803", "U+DCC6">>, <<"U+D803", "U+DC86">>>>,
     <<<<"U+D803", "U+DCC7">>, <<"U+D803", "U+DC87">>>>,
     <<<<"U+D803", "U+DCC8">>, <<"U+D803", "U+DC88">>>>,
     <<<<"U+D803", "U+DCC9">>, <<"U+D803", "U+DC89">>>>,
     <<<<"U+D803", "U+DCCA">>, <<"U+D803", "U+DC8A">>>>,
     <<<<"U+D803", "U+DCCB">>, <<"U+D803", "U+DC8B">>>>,
     <<<<"U+D803", "U+DCCC">>, <<"U+D803", "U+DC8C">>>>,
     <<<<"U+D803", "U+DCCD">>, <<"U+D803", "U+DC8D">>>>,
     <<<<"U+D803", "U+DCCE">>, <<"U+D803", "U+DC8E">>>>,
     <<<<"U+D803", "U+DCCF">>, <<"U+D803", "U+DC8F">>>>,
     <<<<"U+D803", "U+DCD0">>, <<"U+D803", "U+DC90">>>>,
     <<<<"U+D803", "U+DCD1">>, <<"U+D803", "U+DC91">>>>,
     <<<<"U+D803", "U+DCD2">>, <<"U+D803", "U+DC92">>>>,
     <<<<"U+D803", "U+DCD3">>, <<"U+D803", "U+DC93">>>>,
     <<<<"U+D803", "U+DCD4">>, <<"U+D803", "U+DC94">>>>,
     <<<<"U+D803", "U+DCD5">>, <<"U+D803", "U+DC95">>>>,
     <<<<"U+D803", "U+DCD6">>, <<"U+D803", "U+DC96">>>>,
     <<<<"U+D803", "U+DCD7">>, <<"U+D803", "U+DC97">>>>,
     <<<<"U+D803", "U+DCD8">>, <<"U+D803", "U+DC98">>>>,
     <<<<"U+D803", "U+DCD9">>, <<"U+D803", "U+DC99">>>>,
     <<<<"U+D803", "U+DCDA">>, <<"U+D803", "U+DC9A">>>>,
     <<<<"U+D803", "U+DCDB">>, <<"U+D803", "U+DC9B">>>>,
     <<<<"U+D803", "U+DCDC">>, <<"U+D803", "U+DC9C">>>>,
     <<<<"U+D803", "U+DCDD">>, <<"U+D803", "U+DC9D">>>>,
     <<<<"U+D803", "U+DCDE">>, <<"U+D803", "U+DC9E">>>>,
     <<<<"U+D803", "U+DCDF">>, <<"U+D803", "U+DC9F">>>>,
     <<<<"U+D803", "U+DCE0">>, <<"U+D803", "U+DCA0">>>>,
     <<<<"U+D803", "U+DCE1">>, <<"U+D803", "U+DCA1">>>>,
     <<<<"U+D803", "U+DCE2">>, <<"U+D803", "U+DCA2">>>>,
     <<<<"U+D803", "U+DCE3">>, <<"U+D803", "U+DCA3">>>>,
     <<<<"U+D803", "U+DCE4">>, <<"U+D803", "U+DCA4">>>>,
     <<<<"U+D803", "U+DCE5">>, <<"U+D803", "U+DCA5">>>>,
     <<<<"U+D803", "U+DCE6">>, <<"U+D803", "U+DCA6">>>>,
     <<<<"U+D803", "U+DCE7">>, <<"U+D803", "U+DCA7">>>>,
     <<<<"U+D803", "U+DCE8">>, <<"U+D803", "U+DCA8">>>>,
     <<<<"U+D803", "U+DCE9">>, <<"U+D803", "U+DCA9">>>>,
     <<<<"U+D803", "U+DCEA">>, <<"U+D803", "U+DCAA">>>>,
     <<<<"U+D803", "U+DCEB">>, <<"U+D803", "U+DCAB">>>>,
     <<<<"U+D803", "U+DCEC">>, <<"U+D803", "U+DCAC">>>>,
     <<<<"U+D803", "U+DCED">>, <<"U+D803", "U+DCAD">>>>,
     <<<<"U+D803", "U+DCEE">>, <<"U+D803", "U+DCAE">>>>,
     <<<<"U+D803", "U+DCEF">>, <<"U+D803", "U+DCAF">>>>,
     <<<<"U+D803", "U+DCF0">>, <<"U+D803", "U+DCB0">>>>,
     <<<<"U+D803", "U+DCF1">>, <<"U+D803", "U+DCB1">>>>,
     <<<<"U+D803", "U+DCF2">>, <<"U+D803", "U+DCB2">>>>,
     <<<<"U+D803", "U+DD70">>, <<"U+D803", "U+DD50">>>>,
     <<<<"U+D803", "U+DD71">>, <<"U+D803", "U+DD51">>>>,
     <<<<"U+D803", "U+DD72">>, <<"U+D803", "U+DD52">>>>,
     <<<<"U+D803", "U+DD73">>, <<"U+D803", "U+DD53">>>>,
     <<<<"U+D803", "U+DD74">>, <<"U+D803", "U+DD54">>>>,
     <<<<"U+D803", "U+DD75">>, <<"U+D803", "U+DD55">>>>,
     <<<<"U+D803", "U+DD76">>, <<"U+D803", "U+DD56">>>>,
     <<<<"U+D803", "U+DD77">>, <<"U+D803", "U+DD57">>>>,
     <<<<"U+D803", "U+DD78">>, <<"U+D803", "U+DD58">>>>,
     <<<<"U+D803", "U+DD79">>, <<"U+D803", "U+DD59">>>>,
     <<<<"U+D803", "U+DD7A">>, <<"U+D803", "U+DD5A">>>>,
     <<<<"U+D803", "U+DD7B">>, <<"U+D803", "U+DD5B">>>>,
     <<<<"U+D803", "U+DD7C">>, <<"U+D803", "U+DD5C">>>>,
     <<<<"U+D803", "U+DD7D">>, <<"U+D803", "U+DD5D">>>>,
     <<<<"U+D803", "U+DD7E">>, <<"U+D803", "U+DD5E">>>>,
     <<<<"U+D803", "U+DD7F">>, <<"U+D803", "U+DD5F">>>>,
     <<<<"U+D803", "U+DD80">>, <<"U+D803", "U+DD60">>>>,
     <<<<"U+D803", "U+DD81">>, <<"U+D803", "U+DD61">>>>,
     <<<<"U+D803", "U+DD82">>, <<"U+D803", "U+DD62">>>>,
     <<<<"U+D803", "U+DD83">>, <<"U+D803", "U+DD63">>>>,
     <<<<"U+D803", "U+DD84">>, <<"U+D803", "U+DD64">>>>,
     <<<<"U+D803", "U+DD85">>, <<"U+D803", "U+DD65">>>>,
     <<<<"U+D806", "U+DCC0">>, <<"U+D806", "U+DCA0">>>>,
     <<<<"U+D806", "U+DCC1">>, <<"U+D806", "U+DCA1">>>>,
     <<<<"U+D806", "U+DCC2">>, <<"U+D806", "U+DCA2">>>>,
     <<<<"U+D806", "U+DCC3">>, <<"U+D806", "U+DCA3">>>>,
     <<<<"U+D806", "U+DCC4">>, <<"U+D806", "U+DCA4">>>>,
     <<<<"U+D806", "U+DCC5">>, <<"U+D806", "U+DCA5">>>>,
     <<<<"U+D806", "U+DCC6">>, <<"U+D806", "U+DCA6">>>>,
     <<<<"U+D806", "U+DCC7">>, <<"U+D806", "U+DCA7">>>>,
     <<<<"U+D806", "U+DCC8">>, <<"U+D806", "U+DCA8">>>>,
     <<<<"U+D806", "U+DCC9">>, <<"U+D806", "U+DCA9">>>>,
     <<<<"U+D806", "U+DCCA">>, <<"U+D806", "U+DCAA">>>>,
     <<<<"U+D806", "U+DCCB">>, <<"U+D806", "U+DCAB">>>>,
     <<<<"U+D806", "U+DCCC">>, <<"U+D806", "U+DCAC">>>>,
     <<<<"U+D806", "U+DCCD">>, <<"U+D806", "U+DCAD">>>>,
     <<<<"U+D806", "U+DCCE">>, <<"U+D806", "U+DCAE">>>>,
     <<<<"U+D806", "U+DCCF">>, <<"U+D806", "U+DCAF">>>>,
     <<<<"U+D806", "U+DCD0">>, <<"U+D806", "U+DCB0">>>>,
     <<<<"U+D806", "U+DCD1">>, <<"U+D806", "U+DCB1">>>>,
     <<<<"U+D806", "U+DCD2">>, <<"U+D806", "U+DCB2">>>>,
     <<<<"U+D806", "U+DCD3">>, <<"U+D806", "U+DCB3">>>>,
     <<<<"U+D806", "U+DCD4">>, <<"U+D806", "U+DCB4">>>>,
     <<<<"U+D806", "U+DCD5">>, <<"U+D806", "U+DCB5">>>>,
     <<<<"U+D806", "U+DCD6">>, <<"U+D806", "U+DCB6">>>>,
     <<<<"U+D806", "U+DCD7">>, <<"U+D806", "U+DCB7">>>>,
     <<<<"U+D806", "U+DCD8">>, <<"U+D806", "U+DCB8">>>>,
     <<<<"U+D806", "U+DCD9">>, <<"U+D806", "U+DCB9">>>>,
     <<<<"U+D806", "U+DCDA">>, <<"U+D806", "U+DCBA">>>>,
     <<<<"U+D806", "U+DCDB">>, <<"U+D806", "U+DCBB">>>>,
     <<<<"U+D806", "U+DCDC">>, <<"U+D806", "U+DCBC">>>>,
     <<<<"U+D806", "U+DCDD">>, <<"U+D806", "U+DCBD">>>>,
     <<<<"U+D806", "U+DCDE">>, <<"U+D806", "U+DCBE">>>>,
     <<<<"U+D806", "U+DCDF">>, <<"U+D806", "U+DCBF">>>>,
     <<<<"U+D81B", "U+DE60">>, <<"U+D81B", "U+DE40">>>>,
     <<<<"U+D81B", "U+DE61">>, <<"U+D81B", "U+DE41">>>>,
     <<<<"U+D81B", "U+DE62">>, <<"U+D81B", "U+DE42">>>>,
     <<<<"U+D81B", "U+DE63">>, <<"U+D81B", "U+DE43">>>>,
     <<<<"U+D81B", "U+DE64">>, <<"U+D81B", "U+DE44">>>>,
     <<<<"U+D81B", "U+DE65">>, <<"U+D81B", "U+DE45">>>>,
     <<<<"U+D81B", "U+DE66">>, <<"U+D81B", "U+DE46">>>>,
     <<<<"U+D81B", "U+DE67">>, <<"U+D81B", "U+DE47">>>>,
     <<<<"U+D81B", "U+DE68">>, <<"U+D81B", "U+DE48">>>>,
     <<<<"U+D81B", "U+DE69">>, <<"U+D81B", "U+DE49">>>>,
     <<<<"U+D81B", "U+DE6A">>, <<"U+D81B", "U+DE4A">>>>,
     <<<<"U+D81B", "U+DE6B">>, <<"U+D81B", "U+DE4B">>>>,
     <<<<"U+D81B", "U+DE6C">>, <<"U+D81B", "U+DE4C">>>>,
     <<<<"U+D81B", "U+DE6D">>, <<"U+D81B", "U+DE4D">>>>,
     <<<<"U+D81B", "U+DE6E">>, <<"U+D81B", "U+DE4E">>>>,
     <<<<"U+D81B", "U+DE6F">>, <<"U+D81B", "U+DE4F">>>>,
     <<<<"U+D81B", "U+DE70">>, <<"U+D81B", "U+DE50">>>>,
     <<<<"U+D81B", "U+DE71">>, <<"U+D81B", "U+DE51">>>>,
     <<<<"U+D81B", "U+DE72">>, <<"U+D81B", "U+DE52">>>>,
     <<<<"U+D81B", "U+DE73">>, <<"U+D81B", "U+DE53">>>>,
     <<<<"U+D81B", "U+DE74">>, <<"U+D81B", "U+DE54">>>>,
     <<<<"U+D81B", "U+DE75">>, <<"U+D81B", "U+DE55">>>>,
     <<<<"U+D81B", "U+DE76">>, <<"U+D81B", "U+DE56">>>>,
     <<<<"U+D81B", "U+DE77">>, <<"U+D81B", "U+DE57">>>>,
     <<<<"U+D81B", "U+DE78">>, <<"U+D81B", "U+DE58">>>>,
     <<<<"U+D81B", "U+DE79">>, <<"U+D81B", "U+DE59">>>>,
     <<<<"U+D81B", "U+DE7A">>, <<"U+D81B", "U+DE5A">>>>,
     <<<<"U+D81B", "U+DE7B">>, <<"U+D81B", "U+DE5B">>>>,
     <<<<"U+D81B", "U+DE7C">>, <<"U+D81B", "U+DE5C">>>>,
     <<<<"U+D81B", "U+DE7D">>, <<"U+D81B", "U+DE5D">>>>,
     <<<<"U+D81B", "U+DE7E">>, <<"U+D81B", "U+DE5E">>>>,
     <<<<"U+D81B", "U+DE7F">>, <<"U+D81B", "U+DE5F">>>>,
     <<<<"U+D81B", "U+DEBB">>, <<"U+D81B", "U+DEA0">>>>,
     <<<<"U+D81B", "U+DEBC">>, <<"U+D81B", "U+DEA1">>>>,
     <<<<"U+D81B", "U+DEBD">>, <<"U+D81B", "U+DEA2">>>>,
     <<<<"U+D81B", "U+DEBE">>, <<"U+D81B", "U+DEA3">>>>,
     <<<<"U+D81B", "U+DEBF">>, <<"U+D81B", "U+DEA4">>>>,
     <<<<"U+D81B", "U+DEC0">>, <<"U+D81B", "U+DEA5">>>>,
     <<<<"U+D81B", "U+DEC1">>, <<"U+D81B", "U+DEA6">>>>,
     <<<<"U+D81B", "U+DEC2">>, <<"U+D81B", "U+DEA7">>>>,
     <<<<"U+D81B", "U+DEC3">>, <<"U+D81B", "U+DEA8">>>>,
     <<<<"U+D81B", "U+DEC4">>, <<"U+D81B", "U+DEA9">>>>,
     <<<<"U+D81B", "U+DEC5">>, <<"U+D81B", "U+DEAA">>>>,
     <<<<"U+D81B", "U+DEC6">>, <<"U+D81B", "U+DEAB">>>>,
     <<<<"U+D81B", "U+DEC7">>, <<"U+D81B", "U+DEAC">>>>,
     <<<<"U+D81B", "U+DEC8">>, <<"U+D81B", "U+DEAD">>>>,
     <<<<"U+D81B", "U+DEC9">>, <<"U+D81B", "U+DEAE">>>>,
     <<<<"U+D81B", "U+DECA">>, <<"U+D81B", "U+DEAF">>>>,
     <<<<"U+D81B", "U+DECB">>, <<"U+D81B", "U+DEB0">>>>,
     <<<<"U+D81B", "U+DECC">>, <<"U+D81B", "U+DEB1">>>>,
     <<<<"U+D81B", "U+DECD">>, <<"U+D81B", "U+DEB2">>>>,
     <<<<"U+D81B", "U+DECE">>, <<"U+D81B", "U+DEB3">>>>,
     <<<<"U+D81B", "U+DECF">>, <<"U+D81B", "U+DEB4">>>>,
     <<<<"U+D81B", "U+DED0">>, <<"U+D81B", "U+DEB5">>>>,
     <<<<"U+D81B", "U+DED1">>, <<"U+D81B", "U+DEB6">>>>,
     <<<<"U+D81B", "U+DED2">>, <<"U+D81B", "U+DEB7">>>>,
     <<<<"U+D81B", "U+DED3">>, <<"U+D81B", "U+DEB8">>>>,
     <<<<"U+D83A", "U+DD22">>, <<"U+D83A", "U+DD00">>>>,
     <<<<"U+D83A", "U+DD23">>, <<"U+D83A", "U+DD01">>>>,
     <<<<"U+D83A", "U+DD24">>, <<"U+D83A", "U+DD02">>>>,
     <<<<"U+D83A", "U+DD25">>, <<"U+D83A", "U+DD03">>>>,
     <<<<"U+D83A", "U+DD26">>, <<"U+D83A", "U+DD04">>>>,
     <<<<"U+D83A", "U+DD27">>, <<"U+D83A", "U+DD05">>>>,
     <<<<"U+D83A", "U+DD28">>, <<"U+D83A", "U+DD06">>>>,
     <<<<"U+D83A", "U+DD29">>, <<"U+D83A", "U+DD07">>>>,
     <<<<"U+D83A", "U+DD2A">>, <<"U+D83A", "U+DD08">>>>,
     <<<<"U+D83A", "U+DD2B">>, <<"U+D83A", "U+DD09">>>>,
     <<<<"U+D83A", "U+DD2C">>, <<"U+D83A", "U+DD0A">>>>,
     <<<<"U+D83A", "U+DD2D">>, <<"U+D83A", "U+DD0B">>>>,
     <<<<"U+D83A", "U+DD2E">>, <<"U+D83A", "U+DD0C">>>>,
     <<<<"U+D83A", "U+DD2F">>, <<"U+D83A", "U+DD0D">>>>,
     <<<<"U+D83A", "U+DD30">>, <<"U+D83A", "U+DD0E">>>>,
     <<<<"U+D83A", "U+DD31">>, <<"U+D83A", "U+DD0F">>>>,
     <<<<"U+D83A", "U+DD32">>, <<"U+D83A", "U+DD10">>>>,
     <<<<"U+D83A", "U+DD33">>, <<"U+D83A", "U+DD11">>>>,
     <<<<"U+D83A", "U+DD34">>, <<"U+D83A", "U+DD12">>>>,
     <<<<"U+D83A", "U+DD35">>, <<"U+D83A", "U+DD13">>>>,
     <<<<"U+D83A", "U+DD36">>, <<"U+D83A", "U+DD14">>>>,
     <<<<"U+D83A", "U+DD37">>, <<"U+D83A", "U+DD15">>>>,
     <<<<"U+D83A", "U+DD38">>, <<"U+D83A", "U+DD16">>>>,
     <<<<"U+D83A", "U+DD39">>, <<"U+D83A", "U+DD17">>>>,
     <<<<"U+D83A", "U+DD3A">>, <<"U+D83A", "U+DD18">>>>,
     <<<<"U+D83A", "U+DD3B">>, <<"U+D83A", "U+DD19">>>>,
     <<<<"U+D83A", "U+DD3C">>, <<"U+D83A", "U+DD1A">>>>,
     <<<<"U+D83A", "U+DD3D">>, <<"U+D83A", "U+DD1B">>>>,
     <<<<"U+D83A", "U+DD3E">>, <<"U+D83A", "U+DD1C">>>>,
     <<<<"U+D83A", "U+DD3F">>, <<"U+D83A", "U+DD1D">>>>,
     <<<<"U+D83A", "U+DD40">>, <<"U+D83A", "U+DD1E">>>>,
     <<<<"U+D83A", "U+DD41">>, <<"U+D83A", "U+DD1F">>>>,
     <<<<"U+D83A", "U+DD42">>, <<"U+D83A", "U+DD20">>>>,
     <<<<"U+D83A", "U+DD43">>, <<"U+D83A", "U+DD21">>>>}

\* String.prototype.toLowerCase, character by character, a capital sigma
\* being read as it is in the middle of a word
LowerCase ==
    {<<<<"A">>, <<"a">>>>, <<<<"B">>, <<"b">>>>, <<<<"C">>, <<"c">>>>,
     <<<<"D">>, <<"d">>>>, <<<<"E">>, <<"e">>>>, <<<<"F">>, <<"f">>>>,
     <<<<"G">>, <<"g">>>>, <<<<"H">>, <<"h">>>>, <<<<"I">>, <<"i">>>>,
     <<<<"J">>, <<"j">>>>, <<<<"K">>, <<"k">>>>, <<<<"L">>, <<"l">>>>,
     <<<<"M">>, <<"m">>>>, <<<<"N">>, <<"n">>>>, <<<<"O">>, <<"o">>>>,
     <<<<"P">>, <<"p">>>>, <<<<"Q">>, <<"q">>>>, <<<<"R">>, <<"r">>>>,
     <<<<"S">>, <<"s">>>>, <<<<"T">>, <<"t">>>>, <<<<"U">>, <<"u">>>>,
     <<<<"V">>, <<"v">>>>, <<<<"W">>, <<"w">>>>, <<<<"X">>, <<"x">>>>,
     <<<<"Y">>, <<"y">>>>, <<<<"Z">>, <<"z">>>>,
     <<<<"U+00C0">>, <<"U+00E0">>>>, <<<<"U+00C1">>, <<"U+00E1">>>>,
     <<<<"U+00C2">>, <<"U+00E2">>>>, <<<<"U+00C3">>, <<"U+00E3">>>>,
     <<<<"U+00C4">>, <<"U+00E4">>>>, <<<<"U+00C5">>, <<"U+00E5">>>>,
     <<<<"U+00C6">>, <<"U+00E6">>>>, <<<<"U+00C7">>, <<"U+00E7">>>>,
     <<<<"U+00C8">>, <<"U+00E8">>>>, <<<<"U+00C9">>, <<"U+00E9">>>>,
     <<<<"U+00CA">>, <<"U+00EA">>>>, <<<<"U+00CB">>, <<"U+00EB">>>>,
     <<<<"U+00CC">>, <<"U+00EC">>>>, <<<<"U+00CD">>, <<"U+00ED">>>>,
     <<<<"U+00CE">>, <<"U+00EE">>>>, <<<<"U+00CF">>, <<"U+00EF">>>>,
     <<<<"U+00D0">>, <<"U+00F0">>>>, <<<<"U+00D1">>, <<"U+00F1">>>>,
     <<<<"U+00D2">>, <<"U+00F2">>>>, <<<<"U+00D3">>, <<"U+00F3">>>>,
     <<<<"U+00D4">>, <<"U+00F4">>>>, <<<<"U+00D5">>, <<"U+00F5">>>>,
     <<<<"U+00D6">>, <<"U+00F6">>>>, <<<<"U+00D8">>, <<"U+00F8">>>>,
     <<<<"U+00D9">>, <<"U+00F9">>>>, <<<<"U+00DA">>, <<"U+00FA">>>>,
     <<<<"U+00DB">>, <<"U+00FB">>>>, <<<<"U+00DC">>, <<"U+00FC">>>>,
     <<<<"U+00DD">>, <<"U+00FD">>>>, <<<<"U+00DE">>, <<"U+00FE">>>>,
     <<<<"U+0100">>, <<"U+0101">>>>, <<<<"U+0102">>, <<"U+0103">>>>,
     <<<<"U+0104">>, <<"U+0105">>>>, <<<<"U+0106">>, <<"U+0107">>>>,
     <<<<"U+0108">>, <<"U+0109">>>>, <<<<"U+010A">>, <<"U+010B">>>>,
     <<<<"U+010C">>, <<"U+010D">>>>, <<<<"U+010E">>, <<"U+010F">>>>,
     <<<<"U+0110">>, <<"U+0111">>>>, <<<<"U+0112">>, <<"U+0113">>>>,
     <<<<"U+0114">>, <<"U+0115">>>>, <<<<"U+0116">>, <<"U+0117">>>>,
     <<<<"U+0118">>, <<"U+0119">>>>, <<<<"U+011A">>, <<"U+011B">>>>,
     <<<<"U+011C">>, <<"U+011D">>>>, <<<<"U+011E">>, <<"U+011F">>>>,
     <<<<"U+0120">>, <<"U+0121">>>>, <<<<"U+0122">>, <<"U+0123">>>>,
     <<<<"U+0124">>, <<"U+0125">>>>, <<<<"U+0126">>, <<"U+0127">>>>,
     <<<<"U+0128">>, <<"U+0129">>>>, <<<<"U+012A">>, <<"U+012B">>>>,
     <<<<"U+012C">>, <<"U+012D">>>>, <<<<"U+012E">>, <<"U+012F">>>>,
     <<<<"U+0130">>, <<"i", "U+0307">>>>, <<<<"U+0132">>, <<"U+0133">>>>,
     <<<<"U+0134">>, <<"U+0135">>>>, <<<<"U+0136">>, <<"U+0137">>>>,
     <<<<"U+0139">>, <<"U+013A">>>>, <<<<"U+013B">>, <<"U+013C">>>>,
     <<<<"U+013D">>, <<"U+013E">>>>, <<<<"U+013F">>, <<"U+0140">>>>,
     <<<<"U+0141">>, <<"U+0142">>>>, <<<<"U+0143">>, <<"U+0144">>>>,
     <<<<"U+0145">>, <<"U+0146">>>>, <<<<"U+0147">>, <<"U+0148">>>>,
     <<<<"U+014A">>, <<"U+014B">>>>, <<<<"U+014C">>, <<"U+014D">>>>,
     <<<<"U+014E">>, <<"U+014F">>>>, <<<<"U+0150">>, <<"U+0151">>>>,
     <<<<"U+0152">>, <<"U+0153">>>>, <<<<"U+0154">>, <<"U+0155">>>>,
     <<<<"U+0156">>, <<"U+0157">>>>, <<<<"U+0158">>, <<"U+0159">>>>,
     <<<<"U+015A">>, <<"U+015B">>>>, <<<<"U+015C">>, <<"U+015D">>>>,
     <<<<"U+015E">>, <<"U+015F">>>>, <<<<"U+0160">>, <<"U+0161">>>>,
     <<<<"U+0162">>, <<"U+0163">>>>, <<<<"U+0164">>, <<"U+0165">>>>,
     <<<<"U+0166">>, <<"U+0167">>>>, <<<<"U+0168">>, <<"U+0169">>>>,
     <<<<"U+016A">>, <<"U+016B">>>>, <<<<"U+016C">>, <<"U+016D">>>>,
     <<<<"U+016E">>, <<"U+016F">>>>, <<<<"U+0170">>, <<"U+0171">>>>,
     <<<<"U+0172">>, <<"U+0173">>>>, <<<<"U+0174">>, <<"U+0175">>>>,
     <<<<"U+0176">>, <<"U+0177">>>>, <<<<"U+0178">>, <<"U+00FF">>>>,
     <<<<"U+0179">>, <<"U+017A">>>>, <<<<"U+017B">>, <<"U+017C">>>>,
     <<<<"U+017D">>, <<"U+017E">>>>, <<<<"U+0181">>, <<"U+0253">>>>,
     <<<<"U+0182">>, <<"U+0183">>>>, <<<<"U+0184">>, <<"U+0185">>>>,
     <<<<"U+0186">>, <<"U+0254">>>>, <<<<"U+0187">>, <<"U+0188">>>>,
     <<<<"U+0189">>, <<"U+0256">>>>, <<<<"U+018A">>, <<"U+0257">>>>,
     <<<<"U+018B">>, <<"U+018C">>>>, <<<<"U+018E">>, <<"U+01DD">>>>,
     <<<<"U+018F">>, <<"U+0259">>>>, <<<<"U+0190">>, <<"U+025B">>>>,
     <<<<"U+0191">>, <<"U+0192">>>>, <<<<"U+0193">>, <<"U+0260">>>>,
     <<<<"U+0194">>, <<"U+0263">>>>, <<<<"U+0196">>, <<"U+0269">>>>,
     <<<<"U+0197">>, <<"U+0268">>>>, <<<<"U+0198">>, <<"U+0199">>>>,
     <<<<"U+019C">>, <<"U+026F">>>>, <<<<"U+019D">>, <<"U+0272">>>>,
     <<<<"U+019F">>, <<"U+0275">>>>, <<<<"U+01A0">>, <<"U+01A1">>>>,
     <<<<"U+01A2">>, <<"U+01A3">>>>, <<<<"U+01A4">>, <<"U+01A5">>>>,
     <<<<"U+01A6">>, <<"U+0280">>>>, <<<<"U+01A7">>, <<"U+01A8">>>>,
     <<<<"U+01A9">>, <<"U+0283">>>>, <<<<"U+01AC">>, <<"U+01AD">>>>,
     <<<<"U+01AE">>, <<"U+0288">>>>, <<<<"U+01AF">>, <<"U+01B0">>>>,
     <<<<"U+01B1">>, <<"U+028A">>>>, <<<<"U+01B2">>, <<"U+028B">>>>,
     <<<<"U+01B3">>, <<"U+01B4">>>>, <<<<"U+01B5">>, <<"U+01B6">>>>,
     <<<<"U+01B7">>, <<"U+0292">>>>, <<<<"U+01B8">>, <<"U+01B9">>>>,
     <<<<"U+01BC">>, <<"U+01BD">>>>, <<<<"U+01C4">>, <<"U+01C6">>>>,
     <<<<"U+01C5">>, <<"U+01C6">>>>, <<<<"U+01C7">>, <<"U+01C9">>>>,
     <<<<"U+01C8">>, <<"U+01C9">>>>, <<<<"U+01CA">>, <<"U+01CC">>>>,
     <<<<"U+01CB">>, <<"U+01CC">>>>, <<<<"U+01CD">>, <<"U+01CE">>>>,
     <<<<"U+01CF">>, <<"U+01D0">>>>, <<<<"U+01D1">>, <<"U+01D2">>>>,
     <<<<"U+01D3">>, <<"U+01D4">>>>, <<<<"U+01D5">>, <<"U+01D6">>>>,
     <<<<"U+01D7">>, <<"U+01D8">>>>, <<<<"U+01D9">>, <<"U+01DA">>>>,
     <<<<"U+01DB">>, <<"U+01DC">>>>, <<<<"U+01DE">>, <<"U+01DF">>>>,
     <<<<"U+01E0">>, <<"U+01E1">>>>, <<<<"U+01E2">>, <<"U+01E3">>>>,
     <<<<"U+01E4">>, <<"U+01E5">>>>, <<<<"U+01E6">>, <<"U+01E7">>>>,
     <<<<"U+01E8">>, <<"U+01E9">>>>, <<<<"U+01EA">>, <<"U+01EB">>>>,
     <<<<"U+01EC">>, <<"U+01ED">>>>, <<<<"U+01EE">>, <<"U+01EF">>>>,
     <<<<"U+01F1">>, <<"U+01F3">>>>, <<<<"U+01F2">>, <<"U+01F3">>>>,
     <<<<"U+01F4">>, <<"U+01F5">>>>, <<<<"U+01F6">>, <<"U+0195">>>>,
     <<<<"U+01F7">>, <<"U+01BF">>>>, <<<<"U+01F8">>, <<"U+01F9">>>>,
     <<<<"U+01FA">>, <<"U+01FB">>>>, <<<<"U+01FC">>, <<"U+01FD">>>>,
     <<<<"U+01FE">>, <<"U+01FF">>>>, <<<<"U+0200">>, <<"U+0201">>>>,
     <<<<"U+0202">>, <<"U+0203">>>>, <<<<"U+0204">>, <<"U+0205">>>>,
     <<<<"U+0206">>, <<"U+0207">>>>, <<<<"U+0208">>, <<"U+0209">>>>,
     <<<<"U+020A">>, <<"U+020B">>>>, <<<<"U+020C">>, <<"U+020D">>>>,
     <<<<"U+020E">>, <<"U+020F">>>>, <<<<"U+0210">>, <<"U+0211">>>>,
     <<<<"U+0212">>, <<"U+0213">>>>, <<<<"U+0214">>, <<"U+0215">>>>,
     <<<<"U+0216">>, <<"U+0217">>>>, <<<<"U+0218">>, <<"U+0219">>>>,
     <<<<"U+021A">>, <<"U+021B">>>>, <<<<"U+021C">>, <<"U+021D">>>>,
     <<<<"U+021E">>, <<"U+021F">>>>, <<<<"U+0220">>, <<"U+019E">>>>,
     <<<<"U+0222">>, <<"U+0223">>>>, <<<<"U+0224">>, <<"U+0225">>>>,
     <<<<"U+0226">>, <<"U+0227">>>>, <<<<"U+0228">>, <<"U+0229">>>>,
     <<<<"U+022A">>, <<"U+022B">>>>, <<<<"U+022C">>, <<"U+022D">>>>,
     <<<<"U+022E">>, <<"U+022F">>>>, <<<<"U+0230">>, <<"U+0231">>>>,
     <<<<"U+0232">>, <<"U+0233">>>>, <<<<"U+023A">>, <<"U+2C65">>>>,
     <<<<"U+023B">>, <<"U+023C">>>>, <<<<"U+023D">>, <<"U+019A">>>>,
     <<<<"U+023E">>, <<"U+2C66">>>>, <<<<"U+0241">>, <<"U+0242">>>>,
     <<<<"U+0243">>, <<"U+0180">>>>, <<<<"U+0244">>, <<"U+0289">>>>,
     <<<<"U+0245">>, <<"U+028C">>>>, <<<<"U+0246">>, <<"U+0247">>>>,
     <<<<"U+0248">>, <<"U+0249">>>>, <<<<"U+024A">>, <<"U+024B">>>>,
     <<<<"U+024C">>, <<"U+024D">>>>, <<<<"U+024E">>, <<"U+024F">>>>,
     <<<<"U+0370">>, <<"U+0371">>>>, <<<<"U+0372">>, <<"U+0373">>>>,
     <<<<"U+0376">>, <<"U+0377">>>>, <<<<"U+037F">>, <<"U+03F3">>>>,
     <<<<"U+0386">>, <<"U+03AC">>>>, <<<<"U+0388">>, <<"U+03AD">>>>,
     <<<<"U+0389">>, <<"U+03AE">>>>, <<<<"U+038A">>, <<"U+03AF">>>>,
     <<<<"U+038C">>, <<"U+03CC">>>>, <<<<"U+038E">>, <<"U+03CD">>>>,
     <<<<"U+038F">>, <<"U+03CE">>>>, <<<<"U+0391">>, <<"U+03B1">>>>,
     <<<<"U+0392">>, <<"U+03B2">>>>, <<<<"U+0393">>, <<"U+03B3">>>>,
     <<<<"U+0394">>, <<"U+03B4">>>>, <<<<"U+0395">>, <<"U+03B5">>>>,
     <<<<"U+0396">>, <<"U+03B6">>>>, <<<<"U+0397">>, <<"U+03B7">>>>,
     <<<<"U+0398">>, <<"U+03B8">>>>, <<<<"U+0399">>, <<"U+03B9">>>>,
     <<<<"U+039A">>, <<"U+03BA">>>>, <<<<"U+039B">>, <<"U+03BB">>>>,
     <<<<"U+039C">>, <<"U+03BC">>>>, <<<<"U+039D">>, <<"U+03BD">>>>,
     <<<<"U+039E">>, <<"U+03BE">>>>, <<<<"U+039F">>, <<"U+03BF">>>>,
     <<<<"U+03A0">>, <<"U+03C0">>>>, <<<<"U+03A1">>, <<"U+03C1">>>>,
     <<<<"U+03A3">>, <<"U+03C3">>>>, <<<<"U+03A4">>, <<"U+03C4">>>>,
     <<<<"U+03A5">>, <<"U+03C5">>>>, <<<<"U+03A6">>, <<"U+03C6">>>>,
     <<<<"U+03A7">>, <<"U+03C7">>>>, <<<<"U+03A8">>, <<"U+03C8">>>>,
     <<<<"U+03A9">>, <<"U+03C9">>>>, <<<<"U+03AA">>, <<"U+03CA">>>>,
     <<<<"U+03AB">>, <<"U+03CB">>>>, <<<<"U+03CF">>, <<"U+03D7">>>>,
     <<<<"U+03D8">>, <<"U+03D9">>>>, <<<<"U+03DA">>, <<"U+03DB">>>>,
     <<<<"U+03DC">>, <<"U+03DD">>>>, <<<<"U+03DE">>, <<"U+03DF">>>>,
     <<<<"U+03E0">>, <<"U+03E1">>>>, <<<<"U+03E2">>, <<"U+03E3">>>>,
     <<<<"U+03E4">>, <<"U+03E5">>>>, <<<<"U+03E6">>, <<"U+03E7">>>>,
     <<<<"U+03E8">>, <<"U+03E9">>>>, <<<<"U+03EA">>, <<"U+03EB">>>>,
     <<<<"U+03EC">>, <<"U+03ED">>>>, <<<<"U+03EE">>, <<"U+03EF">>>>,
     <<<<"U+03F4">>, <<"U+03B8">>>>, <<<<"U+03F7">>, <<"U+03F8">>>>,
     <<<<"U+03F9">>, <<"U+03F2">>>>, <<<<"U+03FA">>, <<"U+03FB">>>>,
     <<<<"U+03FD">>, <<"U+037B">>>>, <<<<"U+03FE">>, <<"U+037C">>>>,
     <<<<"U+03FF">>, <<"U+037D">>>>, <<<<"U+0400">>, <<"U+0450">>>>,
     <<<<"U+0401">>, <<"U+0451">>>>, <<<<"U+0402">>, <<"U+0452">>>>,
     <<<<"U+0403">>, <<"U+0453">>>>, <<<<"U+0404">>, <<"U+0454">>>>,
     <<<<"U+0405">>, <<"U+0455">>>>, <<<<"U+0406">>, <<"U+0456">>>>,
     <<<<"U+0407">>, <<"U+0457">>>>, <<<<"U+0408">>, <<"U+0458">>>>,
     <<<<"U+0409">>, <<"U+0459">>>>, <<<<"U+040A">>, <<"U+045A">>>>,
     <<<<"U+040B">>, <<"U+045B">>>>, <<<<"U+040C">>, <<"U+045C">>>>,
     <<<<"U+040D">>, <<"U+045D">>>>, <<<<"U+040E">>, <<"U+045E">>>>,
     <<<<"U+040F">>, <<"U+045F">>>>, <<<<"U+0410">>, <<"U+0430">>>>,
     <<<<"U+0411">>, <<"U+0431">>>>, <<<<"U+0412">>, <<"U+0432">>>>,
     <<<<"U+0413">>, <<"U+0433">>>>, <<<<"U+0414">>, <<"U+0434">>>>,
     <<<<"U+0415">>, <<"U+0435">>>>, <<<<"U+0416">>, <<"U+0436">>>>,
     <<<<"U+0417">>, <<"U+0437">>>>, <<<<"U+0418">>, <<"U+0438">>>>,
     <<<<"U+0419">>, <<"U+0439">>>>, <<<<"U+041A">>, <<"U+043A">>>>,
     <<<<"U+041B">>, <<"U+043B">>>>, <<<<"U+041C">>, <<"U+043C">>>>,
     <<<<"U+041D">>, <<"U+043D">>>>, <<<<"U+041E">>, <<"U+043E">>>>,
     <<<<"U+041F">>, <<"U+043F">>>>, <<<<"U+0420">>, <<"U+0440">>>>,
     <<<<"U+0421">>, <<"U+0441">>>>, <<<<"U+0422">>, <<"U+0442">>>>,
     <<<<"U+0423">>, <<"U+0443">>>>, <<<<"U+0424">>, <<"U+0444">>>>,
     <<<<"U+0425">>, <<"U+0445">>>>, <<<<"U+0426">>, <<"U+0446">>>>,
     <<<<"U+0427">>, <<"U+0447">>>>, <<<<"U+0428">>, <<"U+0448">>>>,
     <<<<"U+0429">>, <<"U+0449">>>>, <<<<"U+042A">>, <<"U+044A">>>>,
     <<<<"U+042B">>, <<"U+044B">>>>, <<<<"U+042C">>, <<"U+044C">>>>,
     <<<<"U+042D">>, <<"U+044D">>>>, <<<<"U+042E">>, <<"U+044E">>>>,
     <<<<"U+042F">>, <<"U+044F">>>>, <<<<"U+0460">>, <<"U+0461">>>>,
     <<<<"U+0462">>, <<"U+0463">>>>, <<<<"U+0464">>, <<"U+0465">>>>,
     <<<<"U+0466">>, <<"U+0467">>>>, <<<<"U+0468">>, <<"U+0469">>>>,
     <<<<"U+046A">>, <<"U+046B">>>>, <<<<"U+046C">>, <<"U+046D">>>>,
     <<<<"U+046E">>, <<"U+046F">>>>, <<<<"U+0470">>, <<"U+0471">>>>,
     <<<<"U+0472">>, <<"U+0473">>>>, <<<<"U+0474">>, <<"U+0475">>>>,
     <<<<"U+0476">>, <<"U+0477">>>>, <<<<"U+0478">>, <<"U+0479">>>>,
     <<<<"U+047A">>, <<"U+047B">>>>, <<<<"U+047C">>, <<"U+047D">>>>,
     <<<<"U+047E">>, <<"U+047F">>>>, <<<<"U+0480">>, <<"U+0481">>>>,
     <<<<"U+048A">>, <<"U+048B">>>>, <<<<"U+048C">>, <<"U+048D">>>>,
     <<<<"U+048E">>, <<"U+048F">>>>, <<<<"U+0490">>, <<"U+0491">>>>,
     <<<<"U+0492">>, <<"U+0493">>>>, <<<<"U+0494">>, <<"U+0495">>>>,
     <<<<"U+0496">>, <<"U+0497">>>>, <<<<"U+0498">>, <<"U+0499">>>>,
     <<<<"U+049A">>, <<"U+049B">>>>, <<<<"U+049C">>, <<"U+049D">>>>,
     <<<<"U+049E">>, <<"U+049F">>>>, <<<<"U+04A0">>, <<"U+04A1">>>>,
     <<<<"U+04A2">>, <<"U+04A3">>>>, <<<<"U+04A4">>, <<"U+04A5">>>>,
     <<<<"U+04A6">>, <<"U+04A7">>>>, <<<<"U+04A8">>, <<"U+04A9">>>>,
     <<<<"U+04AA">>, <<"U+04AB">>>>, <<<<"U+04AC">>, <<"U+04AD">>>>,
     <<<<"U+04AE">>, <<"U+04AF">>>>, <<<<"U+04B0">>, <<"U+04B1">>>>,
     <<<<"U+04B2">>, <<"U+04B3">>>>, <<<<"U+04B4">>, <<"U+04B5">>>>,
     <<<<"U+04B6">>, <<"U+04B7">>>>, <<<<"U+04B8">>, <<"U+04B9">>>>,
     <<<<"U+04BA">>, <<"U+04BB">>>>, <<<<"U+04BC">>, <<"U+04BD">>>>,
     <<<<"U+04BE">>, <<"U+04BF">>>>, <<<<"U+04C0">>, <<"U+04CF">>>>,
     <<<<"U+04C1">>, <<"U+04C2">>>>, <<<<"U+04C3">>, <<"U+04C4">>>>,
     <<<<"U+04C5">>, <<"U+04C6">>>>, <<<<"U+04C7">>, <<"U+04C8">>>>,
     <<<<"U+04C9">>, <<"U+04CA">>>>, <<<<"U+04CB">>, <<"U+04CC">>>>,
     <<<<"U+04CD">>, <<"U+04CE">>>>, <<<<"U+04D0">>, <<"U+04D1">>>>,
     <<<<"U+04D2">>, <<"U+04D3">>>>, <<<<"U+04D4">>, <<"U+04D5">>>>,
     <<<<"U+04D6">>, <<"U+04D7">>>>, <<<<"U+04D8">>, <<"U+04D9">>>>,
     <<<<"U+04DA">>, <<"U+04DB">>>>, <<<<"U+04DC">>, <<"U+04DD">>>>,
     <<<<"U+04DE">>, <<"U+04DF">>>>, <<<<"U+04E0">>, <<"U+04E1">>>>,
     <<<<"U+04E2">>, <<"U+04E3">>>>, <<<<"U+04E4">>, <<"U+04E5">>>>,
     <<<<"U+04E6">>, <<"U+04E7">>>>, <<<<"U+04E8">>, <<"U+04E9">>>>,
     <<<<"U+04EA">>, <<"U+04EB">>>>, <<<<"U+04EC">>, <<"U+04ED">>>>,
     <<<<"U+04EE">>, <<"U+04EF">>>>, <<<<"U+04F0">>, <<"U+04F1">>>>,
     <<<<"U+04F2">>, <<"U+04F3">>>>, <<<<"U+04F4">>, <<"U+04F5">>>>,
     <<<<"U+04F6">>, <<"U+04F7">>>>, <<<<"U+04F8">>, <<"U+04F9">>>>,
     <<<<"U+04FA">>, <<"U+04FB">>>>, <<<<"U+04FC">>, <<"U+04FD">>>>,
     <<<<"U+04FE">>, <<"U+04FF">>>>, <<<<"U+0500">>, <<"U+0501">>>>,
     <<<<"U+0502">>, <<"U+0503">>>>, <<<<"U+0504">>, <<"U+0505">>>>,
     <<<<"U+0506">>, <<"U+0507">>>>, <<<<"U+0508">>, <<"U+0509">>>>,
     <<<<"U+050A">>, <<"U+050B">>>>, <<<<"U+050C">>, <<"U+050D">>>>,
     <<<<"U+050E">>, <<"U+050F">>>>, <<<<"U+0510">>, <<"U+0511">>>>,
     <<<<"U+0512">>, <<"U+0513">>>>, <<<<"U+0514">>, <<"U+0515">>>>,
     <<<<"U+0516">>, <<"U+0517">>>>, <<<<"U+0518">>, <<"U+0519">>>>,
     <<<<"U+051A">>, <<"U+051B">>>>, <<<<"U+051C">>, <<"U+051D">>>>,
     <<<<"U+051E">>, <<"U+051F">>>>, <<<<"U+0520">>, <<"U+0521">>>>,
     <<<<"U+0522">>, <<"U+0523">>>>, <<<<"U+0524">>, <<"U+0525">>>>,
     <<<<"U+0526">>, <<"U+0527">>>>, <<<<"U+0528">>, <<"U+0529">>>>,
     <<<<"U+052A">>, <<"U+052B">>>>, <<<<"U+052C">>, <<"U+052D">>>>,
     <<<<"U+052E">>, <<"U+052F">>>>, <<<<"U+0531">>, <<"U+0561">>>>,
     <<<<"U+0532">>, <<"U+0562">>>>, <<<<"U+0533">>, <<"U+0563">>>>,
     <<<<"U+0534">>, <<"U+0564">>>>, <<<<"U+0535">>, <<"U+0565">>>>,
     <<<<"U+0536">>, <<"U+0566">>>>, <<<<"U+0537">>, <<"U+0567">>>>,
     <<<<"U+0538">>, <<"U+0568">>>>, <<<<"U+0539">>, <<"U+0569">>>>,
     <<<<"U+053A">>, <<"U+056A">>>>, <<<<"U+053B">>, <<"U+056B">>>>,
     <<<<"U+053C">>, <<"U+056C">>>>, <<<<"U+053D">>, <<"U+056D">>>>,
     <<<<"U+053E">>, <<"U+056E">>>>, <<<<"U+053F">>, <<"U+056F">>>>,
     <<<<"U+0540">>, <<"U+0570">>>>, <<<<"U+0541">>, <<"U+0571">>>>,
     <<<<"U+0542">>, <<"U+0572">>>>, <<<<"U+0543">>, <<"U+0573">>>>,
     <<<<"U+0544">>, <<"U+0574">>>>, <<<<"U+0545">>, <<"U+0575">>>>,
     <<<<"U+0546">>, <<"U+0576">>>>, <<<<"U+0547">>, <<"U+0577">>>>,
     <<<<"U+0548">>, <<"U+0578">>>>, <<<<"U+0549">>, <<"U+0579">>>>,
     <<<<"U+054A">>, <<"U+057A">>>>, <<<<"U+054B">>, <<"U+057B">>>>,
     <<<<"U+054C">>, <<"U+057C">>>>, <<<<"U+054D">>, <<"U+057D">>>>,
     <<<<"U+054E">>, <<"U+057E">>>>, <<<<"U+054F">>, <<"U+057F">>>>,
     <<<<"U+0550">>, <<"U+0580">>>>, <<<<"U+0551">>, <<"U+0581">>>>,
     <<<<"U+0552">>, <<"U+0582">>>>, <<<<"U+0553">>, <<"U+0583">>>>,
     <<<<"U+0554">>, <<"U+0584">>>>, <<<<"U+0555">>, <<"U+0585">>>>,
     <<<<"U+0556">>, <<"U+0586">>>>, <<<<"U+10A0">>, <<"U+2D00">>>>,
     <<<<"U+10A1">>, <<"U+2D01">>>>, <<<<"U+10A2">>, <<"U+2D02">>>>,
     <<<<"U+10A3">>, <<"U+2D03">>>>, <<<<"U+10A4">>, <<"U+2D04">>>>,
     <<<<"U+10A5">>, <<"U+2D05">>>>, <<<<"U+10A6">>, <<"U+2D06">>>>,
     <<<<"U+10A7">>, <<"U+2D07">>>>, <<<<"U+10A8">>, <<"U+2D08">>>>,
     <<<<"U+10A9">>, <<"U+2D09">>>>, <<<<"U+10AA">>, <<"U+2D0A">>>>,
     <<<<"U+10AB">>, <<"U+2D0B">>>>, <<<<"U+10AC">>, <<"U+2D0C">>>>,
     <<<<"U+10AD">>, <<"U+2D0D">>>>, <<<<"U+10AE">>, <<"U+2D0E">>>>,
     <<<<"U+10AF">>, <<"U+2D0F">>>>, <<<<"U+10B0">>, <<"U+2D10">>>>,
     <<<<"U+10B1">>, <<"U+2D11">>>>, <<<<"U+10B2">>, <<"U+2D12">>>>,
     <<<<"U+10B3">>, <<"U+2D13">>>>, <<<<"U+10B4">>, <<"U+2D14">>>>,
     <<<<"U+10B5">>, <<"U+2D15">>>>, <<<<"U+10B6">>, <<"U+2D16">>>>,
     <<<<"U+10B7">>, <<"U+2D17">>>>, <<<<"U+10B8">>, <<"U+2D18">>>>,
     <<<<"U+10B9">>, <<"U+2D19">>>>, <<<<"U+10BA">>, <<"U+2D1A">>>>,
     <<<<"U+10BB">>, <<"U+2D1B">>>>, <<<<"U+10BC">>, <<"U+2D1C">>>>,
     <<<<"U+10BD">>, <<"U+2D1D">>>>, <<<<"U+10BE">>, <<"U+2D1E">>>>,
     <<<<"U+10BF">>, <<"U+2D1F">>>>, <<<<"U+10C0">>, <<"U+2D20">>>>,
     <<<<"U+10C1">>, <<"U+2D21">>>>, <<<<"U+10C2">>, <<"U+2D22">>>>,
     <<<<"U+10C3">>, <<"U+2D23">>>>, <<<<"U+10C4">>, <<"U+2D24">>>>,
     <<<<"U+10C5">>, <<"U+2D25">>>>, <<<<"U+10C7">>, <<"U+2D27">>>>,
     <<<<"U+10CD">>, <<"U+2D2D">>>>, <<<<"U+13A0">>, <<"U+AB70">>>>,
     <<<<"U+13A1">>, <<"U+AB71">>>>, <<<<"U+13A2">>, <<"U+AB72">>>>,
     <<<<"U+13A3">>, <<"U+AB73">>>>, <<<<"U+13A4">>, <<"U+AB74">>>>,
     <<<<"U+13A5">>, <<"U+AB75">>>>, <<<<"U+13A6">>, <<"U+AB76">>>>,
     <<<<"U+13A7">>, <<"U+AB77">>>>, <<<<"U+13A8">>, <<"U+AB78">>>>,
     <<<<"U+13A9">>, <<"U+AB79">>>>, <<<<"U+13AA">>, <<"U+AB7A">>>>,
     <<<<"U+13AB">>, <<"U+AB7B">>>>, <<<<"U+13AC">>, <<"U+AB7C">>>>,
     <<<<"U+13AD">>, <<"U+AB7D">>>>, <<<<"U+13AE">>, <<"U+AB7E">>>>,
     <<<<"U+13AF">>, <<"U+AB7F">>>>, <<<<"U+13B0">>, <<"U+AB80">>>>,
     <<<<"U+13B1">>, <<"U+AB81">>>>, <<<<"U+13B2">>, <<"U+AB82">>>>,
     <<<<"U+13B3">>, <<"U+AB83">>>>, <<<<"U+13B4">>, <<"U+AB84">>>>,
     <<<<"U+13B5">>, <<"U+AB85">>>>, <<<<"U+13B6">>, <<"U+AB86">>>>,
     <<<<"U+13B7">>, <<"U+AB87">>>>, <<<<"U+13B8">>, <<"U+AB88">>>>,
     <<<<"U+13B9">>, <<"U+AB89">>>>, <<<<"U+13BA">>, <<"U+AB8A">>>>,
     <<<<"U+13BB">>, <<"U+AB8B">>>>, <<<<"U+13BC">>, <<"U+AB8C">>>>,
     <<<<"U+13BD">>, <<"U+AB8D">>>>, <<<<"U+13BE">>, <<"U+AB8E">>>>,
     <<<<"U+13BF">>, <<"U+AB8F">>>>, <<<<"U+13C0">>, <<"U+AB90">>>>,
     <<<<"U+13C1">>, <<"U+AB91">>>>, <<<<"U+13C2">>, <<"U+AB92">>>>,
     <<<<"U+13C3">>, <<"U+AB93">>>>, <<<<"U+13C4">>, <<"U+AB94">>>>,
     <<<<"U+13C5">>, <<"U+AB95">>>>, <<<<"U+13C6">>, <<"U+AB96">>>>,
     <<<<"U+13C7">>, <<"U+AB97">>>>, <<<<"U+13C8">>, <<"U+AB98">>>>,
     <<<<"U+13C9">>, <<"U+AB99">>>>, <<<<"U+13CA">>, <<"U+AB9A">>>>,
     <<<<"U+13CB">>, <<"U+AB9B">>>>, <<<<"U+13CC">>, <<"U+AB9C">>>>,
     <<<<"U+13CD">>, <<"U+AB9D">>>>, <<<<"U+13CE">>, <<"U+AB9E">>>>,
     <<<<"U+13CF">>, <<"U+AB9F">>>>, <<<<"U+13D0">>, <<"U+ABA0">>>>,
     <<<<"U+13D1">>, <<"U+ABA1">>>>, <<<<"U+13D2">>, <<"U+ABA2">>>>,
     <<<<"U+13D3">>, <<"U+ABA3">>>>, <<<<"U+13D4">>, <<"U+ABA4">>>>,
     <<<<"U+13D5">>, <<"U+ABA5">>>>, <<<<"U+13D6">>, <<"U+ABA6">>>>,
     <<<<"U+13D7">>, <<"U+ABA7">>>>, <<<<"U+13D8">>, <<"U+ABA8">>>>,
     <<<<"U+13D9">>, <<"U+ABA9">>>>, <<<<"U+13DA">>, <<"U+ABAA">>>>,
     <<<<"U+13DB">>, <<"U+ABAB">>>>, <<<<"U+13DC">>, <<"U+ABAC">>>>,
     <<<<"U+13DD">>, <<"U+ABAD">>>>, <<<<"U+13DE">>, <<"U+ABAE">>>>,
     <<<<"U+13DF">>, <<"U+ABAF">>>>, <<<<"U+13E0">>, <<"U+ABB0">>>>,
     <<<<"U+13E1">>, <<"U+ABB1">>>>, <<<<"U+13E2">>, <<"U+ABB2">>>>,
     <<<<"U+13E3">>, <<"U+ABB3">>>>, <<<<"U+13E4">>, <<"U+ABB4">>>>,
     <<<<"U+13E5">>, <<"U+ABB5">>>>, <<<<"U+13E6">>, <<"U+ABB6">>>>,
     <<<<"U+13E7">>, <<"U+ABB7">>>>, <<<<"U+13E8">>, <<"U+ABB8">>>>,
     <<<<"U+13E9">>, <<"U+ABB9">>>>, <<<<"U+13EA">>, <<"U+ABBA">>>>,
     <<<<"U+13EB">>, <<"U+ABBB">>>>, <<<<"U+13EC">>, <<"U+ABBC">>>>,
     <<<<"U+13ED">>, <<"U+ABBD">>>>, <<<<"U+13EE">>, <<"U+ABBE">>>>,
     <<<<"U+13EF">>, <<"U+ABBF">>>>, <<<<"U+13F0">>, <<"U+13F8">>>>,
     <<<<"U+13F1">>, <<"U+13F9">>>>, <<<<"U+13F2">>, <<"U+13FA">>>>,
     <<<<"U+13F3">>, <<"U+13FB">>>>, <<<<"U+13F4">>, <<"U+13FC">>>>,
     <<<<"U+13F5">>, <<"U+13FD">>>>, <<<<"U+1C89">>, <<"U+1C8A">>>>,
     <<<<"U+1C90">>, <<"U+10D0">>>>, <<<<"U+1C91">>, <<"U+10D1">>>>,
     <<<<"U+1C92">>, <<"U+10D2">>>>, <<<<"U+1C93">>, <<"U+10D3">>>>,
     <<<<"U+1C94">>, <<"U+10D4">>>>, <<<<"U+1C95">>, <<"U+10D5">>>>,
     <<<<"U+1C96">>, <<"U+10D6">>>>, <<<<"U+1C97">>, <<"U+10D7">>>>,
     <<<<"U+1C98">>, <<"U+10D8">>>>, <<<<"U+1C99">>, <<"U+10D9">>>>,
     <<<<"U+1C9A">>, <<"U+10DA">>>>, <<<<"U+1C9B">>, <<"U+10DB">>>>,
     <<<<"U+1C9C">>, <<"U+10DC">>>>, <<<<"U+1C9D">>, <<"U+10DD">>>>,
     <<<<"U+1C9E">>, <<"U+10DE">>>>, <<<<"U+1C9F">>, <<"U+10DF">>>>,
     <<<<"U+1CA0">>, <<"U+10E0">>>>, <<<<"U+1CA1">>, <<"U+10E1">>>>,
     <<<<"U+1CA2">>, <<"U+10E2">>>>, <<<<"U+1CA3">>, <<"U+10E3">>>>,
     <<<<"U+1CA4">>, <<"U+10E4">>>>, <<<<"U+1CA5">>, <<"U+10E5">>>>,
     <<<<"U+1CA6">>, <<"U+10E6">>>>, <<<<"U+1CA7">>, <<"U+10E7">>>>,
     <<<<"U+1CA8">>, <<"U+10E8">>>>, <<<<"U+1CA9">>, <<"U+10E9">>>>,
     <<<<"U+1CAA">>, <<"U+10EA">>>>, <<<<"U+1CAB">>, <<"U+10EB">>>>,
     <<<<"U+1CAC">>, <<"U+10EC">>>>, <<<<"U+1CAD">>, <<"U+10ED">>>>,
     <<<<"U+1CAE">>, <<"U+10EE">>>>, <<<<"U+1CAF">>, <<"U+10EF">>>>,
     <<<<"U+1CB0">>, <<"U+10F0">>>>, <<<<"U+1CB1">>, <<"U+10F1">>>>,
     <<<<"U+1CB2">>, <<"U+10F2">>>>, <<<<"U+1CB3">>, <<"U+10F3">>>>,
     <<<<"U+1CB4">>, <<"U+10F4">>>>, <<<<"U+1CB5">>, <<"U+10F5">>>>,
     <<<<"U+1CB6">>, <<"U+10F6">>>>, <<<<"U+1CB7">>, <<"U+10F7">>>>,
     <<<<"U+1CB8">>, <<"U+10F8">>>>, <<<<"U+1CB9">>, <<"U+10F9">>>>,
     <<<<"U+1CBA">>, <<"U+10FA">>>>, <<<<"U+1CBD">>, <<"U+10FD">>>>,
     <<<<"U+1CBE">>, <<"U+10FE">>>>, <<<<"U+1CBF">>, <<"U+10FF">>>>,
     <<<<"U+1E00">>, <<"U+1E01">>>>, <<<<"U+1E02">>, <<"U+1E03">>>>,
     <<<<"U+1E04">>, <<"U+1E05">>>>, <<<<"U+1E06">>, <<"U+1E07">>>>,
     <<<<"U+1E08">>, <<"U+1E09">>>>, <<<<"U+1E0A">>, <<"U+1E0B">>>>,
     <<<<"U+1E0C">>, <<"U+1E0D">>>>, <<<<"U+1E0E">>, <<"U+1E0F">>>>,
     <<<<"U+1E10">>, <<"U+1E11">>>>, <<<<"U+1E12">>, <<"U+1E13">>>>,
     <<<<"U+1E14">>, <<"U+1E15">>>>, <<<<"U+1E16">>, <<"U+1E17">>>>,
     <<<<"U+1E18">>, <<"U+1E19">>>>, <<<<"U+1E1A">>, <<"U+1E1B">>>>,
     <<<<"U+1E1C">>, <<"U+1E1D">>>>, <<<<"U+1E1E">>, <<"U+1E1F">>>>,
     <<<<"U+1E20">>, <<"U+1E21">>>>, <<<<"U+1E22">>, <<"U+1E23">>>>,
     <<<<"U+1E24">>, <<"U+1E25">>>>, <<<<"U+1E26">>, <<"U+1E27">>>>,
     <<<<"U+1E28">>, <<"U+1E29">>>>, <<<<"U+1E2A">>, <<"U+1E2B">>>>,
     <<<<"U+1E2C">>, <<"U+1E2D">>>>, <<<<"U+1E2E">>, <<"U+1E2F">>>>,
     <<<<"U+1E30">>, <<"U+1E31">>>>, <<<<"U+1E32">>, <<"U+1E33">>>>,
     <<<<"U+1E34">>, <<"U+1E35">>>>, <<<<"U+1E36">>, <<"U+1E37">>>>,
     <<<<"U+1E38">>, <<"U+1E39">>>>, <<<<"U+1E3A">>, <<"U+1E3B">>>>,
     <<<<"U+1E3C">>, <<"U+1E3D">>>>, <<<<"U+1E3E">>, <<"U+1E3F">>>>,
     <<<<"U+1E40">>, <<"U+1E41">>>>, <<<<"U+1E42">>, <<"U+1E43">>>>,
     <<<<"U+1E44">>, <<"U+1E45">>>>, <<<<"U+1E46">>, <<"U+1E47">>>>,
     <<<<"U+1E48">>, <<"U+1E49">>>>, <<<<"U+1E4A">>, <<"U+1E4B">>>>,
     <<<<"U+1E4C">>, <<"U+1E4D">>>>, <<<<"U+1E4E">>, <<"U+1E4F">>>>,
     <<<<"U+1E50">>, <<"U+1E51">>>>, <<<<"U+1E52">>, <<"U+1E53">>>>,
     <<<<"U+1E54">>, <<"U+1E55">>>>, <<<<"U+1E56">>, <<"U+1E57">>>>,
     <<<<"U+1E58">>, <<"U+1E59">>>>, <<<<"U+1E5A">>, <<"U+1E5B">>>>,
     <<<<"U+1E5C">>, <<"U+1E5D">>>>, <<<<"U+1E5E">>, <<"U+1E5F">>>>,
     <<<<"U+1E60">>, <<"U+1E61">>>>, <<<<"U+1E62">>, <<"U+1E63">>>>,
     <<<<"U+1E64">>, <<"U+1E65">>>>, <<<<"U+1E66">>, <<"U+1E67">>>>,
     <<<<"U+1E68">>, <<"U+1E69">>>>, <<<<"U+1E6A">>, <<"U+1E6B">>>>,
     <<<<"U+1E6C">>, <<"U+1E6D">>>>, <<<<"U+1E6E">>, <<"U+1E6F">>>>,
     <<<<"U+1E70">>, <<"U+1E71">>>>, <<<<"U+1E72">>, <<"U+1E73">>>>,
     <<<<"U+1E74">>, <<"U+1E75">>>>, <<<<"U+1E76">>, <<"U+1E77">>>>,
     <<<<"U+1E78">>, <<"U+1E79">>>>, <<<<"U+1E7A">>, <<"U+1E7B">>>>,
     <<<<"U+1E7C">>, <<"U+1E7D">>>>, <<<<"U+1E7E">>, <<"U+1E7F">>>>,
     <<<<"U+1E80">>, <<"U+1E81">>>>, <<<<"U+1E82">>, <<"U+1E83">>>>,
     <<<<"U+1E84">>, <<"U+1E85">>>>, <<<<"U+1E86">>, <<"U+1E87">>>>,
     <<<<"U+1E88">>, <<"U+1E89">>>>, <<<<"U+1E8A">>, <<"U+1E8B">>>>,
     <<<<"U+1E8C">>, <<"U+1E8D">>>>, <<<<"U+1E8E">>, <<"U+1E8F">>>>,
     <<<<"U+1E90">>, <<"U+1E91">>>>, <<<<"U+1E92">>, <<"U+1E93">>>>,
     <<<<"U+1E94">>, <<"U+1E95">>>>, <<<<"U+1E9E">>, <<"U+00DF">>>>,
     <<<<"U+1EA0">>, <<"U+1EA1">>>>, <<<<"U+1EA2">>, <<"U+1EA3">>>>,
     <<<<"U+1EA4">>, <<"U+1EA5">>>>, <<<<"U+1EA6">>, <<"U+1EA7">>>>,
     <<<<"U+1EA8">>, <<"U+1EA9">>>>, <<<<"U+1EAA">>, <<"U+1EAB">>>>,
     <<<<"U+1EAC">>, <<"U+1EAD">>>>, <<<<"U+1EAE">>, <<"U+1EAF">>>>,
     <<<<"U+1EB0">>, <<"U+1EB1">>>>, <<<<"U+1EB2">>, <<"U+1EB3">>>>,
     <<<<"U+1EB4">>, <<"U+1EB5">>>>, <<<<"U+1EB6">>, <<"U+1EB7">>>>,
     <<<<"U+1EB8">>, <<"U+1EB9">>>>, <<<<"U+1EBA">>, <<"U+1EBB">>>>,
     <<<<"U+1EBC">>, <<"U+1EBD">>>>, <<<<"U+1EBE">>, <<"U+1EBF">>>>,
     <<<<"U+1EC0">>, <<"U+1EC1">>>>, <<<<"U+1EC2">>, <<"U+1EC3">>>>,
     <<<<"U+1EC4">>, <<"U+1EC5">>>>, <<<<"U+1EC6">>, <<"U+1EC7">>>>,
     <<<<"U+1EC8">>, <<"U+1EC9">>>>, <<<<"U+1ECA">>, <<"U+1ECB">>>>,
     <<<<"U+1ECC">>, <<"U+1ECD">>>>, <<<<"U+1ECE">>, <<"U+1ECF">>>>,
     <<<<"U+1ED0">>, <<"U+1ED1">>>>, <<<<"U+1ED2">>, <<"U+1ED3">>>>,
     <<<<"U+1ED4">>, <<"U+1ED5">>>>, <<<<"U+1ED6">>, <<"U+1ED7">>>>,
     <<<<"U+1ED8">>, <<"U+1ED9">>>>, <<<<"U+1EDA">>, <<"U+1EDB">>>>,
     <<<<"U+1EDC">>, <<"U+1EDD">>>>, <<<<"U+1EDE">>, <<"U+1EDF">>>>,
     <<<<"U+1EE0">>, <<"U+1EE1">>>>, <<<<"U+1EE2">>, <<"U+1EE3">>>>,
     <<<<"U+1EE4">>, <<"U+1EE5">>>>, <<<<"U+1EE6">>, <<"U+1EE7">>>>,
     <<<<"U+1EE8">>, <<"U+1EE9">>>>, <<<<"U+1EEA">>, <<"U+1EEB">>>>,
     <<<<"U+1EEC">>, <<"U+1EED">>>>, <<<<"U+1EEE">>, <<"U+1EEF">>>>,
     <<<<"U+1EF0">>, <<"U+1EF1">>>>, <<<<"U+1EF2">>, <<"U+1EF3">>>>,
     <<<<"U+1EF4">>, <<"U+1EF5">>>>, <<<<"U+1EF6">>, <<"U+1EF7">>>>,
     <<<<"U+1EF8">>, <<"U+1EF9">>>>, <<<<"U+1EFA">>, <<"U+1EFB">>>>,
     <<<<"U+1EFC">>, <<"U+1EFD">>>>, <<<<"U+1EFE">>, <<"U+1EFF">>>>,
     <<<<"U+1F08">>, <<"U+1F00">>>>, <<<<"U+1F09">>, <<"U+1F01">>>>,
     <<<<"U+1F0A">>, <<"U+1F02">>>>, <<<<"U+1F0B">>, <<"U+1F03">>>>,
     <<<<"U+1F0C">>, <<"U+1F04">>>>, <<<<"U+1F0D">>, <<"U+1F05">>>>,
     <<<<"U+1F0E">>, <<"U+1F06">>>>, <<<<"U+1F0F">>, <<"U+1F07">>>>,
     <<<<"U+1F18">>, <<"U+1F10">>>>, <<<<"U+1F19">>, <<"U+1F11">>>>,
     <<<<"U+1F1A">>, <<"U+1F12">>>>, <<<<"U+1F1B">>, <<"U+1F13">>>>,
     <<<<"U+1F1C">>, <<"U+1F14">>>>, <<<<"U+1F1D">>, <<"U+1F15">>>>,
     <<<<"U+1F28">>, <<"U+1F20">>>>, <<<<"U+1F29">>, <<"U+1F21">>>>,
     <<<<"U+1F2A">>, <<"U+1F22">>>>, <<<<"U+1F2B">>, <<"U+1F23">>>>,
     <<<<"U+1F2C">>, <<"U+1F24">>>>, <<<<"U+1F2D">>, <<"U+1F25">>>>,
     <<<<"U+1F2E">>, <<"U+1F26">>>>, <<<<"U+1F2F">>, <<"U+1F27">>>>,
     <<<<"U+1F38">>, <<"U+1F30">>>>, <<<<"U+1F39">>, <<"U+1F31">>>>,
     <<<<"U+1F3A">>, <<"U+1F32">>>>, <<<<"U+1F3B">>, <<"U+1F33">>>>,
     <<<<"U+1F3C">>, <<"U+1F34">>>>, <<<<"U+1F3D">>, <<"U+1F35">>>>,
     <<<<"U+1F3E">>, <<"U+1F36">>>>, <<<<"U+1F3F">>, <<"U+1F37">>>>,
     <<<<"U+1F48">>, <<"U+1F40">>>>, <<<<"U+1F49">>, <<"U+1F41">>>>,
     <<<<"U+1F4A">>, <<"U+1F42">>>>, <<<<"U+1F4B">>, <<"U+1F43">>>>,
     <<<<"U+1F4C">>, <<"U+1F44">>>>, <<<<"U+1F4D">>, <<"U+1F45">>>>,
     <<<<"U+1F59">>, <<"U+1F51">>>>, <<<<"U+1F5B">>, <<"U+1F53">>>>,
     <<<<"U+1F5D">>, <<"U+1F55">>>>, <<<<"U+1F5F">>, <<"U+1F57">>>>,
     <<<<"U+1F68">>, <<"U+1F60">>>>, <<<<"U+1F69">>, <<"U+1F61">>>>,
     <<<<"U+1F6A">>, <<"U+1F62">>>>, <<<<"U+1F6B">>, <<"U+1F63">>>>,
     <<<<"U+1F6C">>, <<"U+1F64">>>>, <<<<"U+1F6D">>, <<"U+1F65">>>>,
     <<<<"U+1F6E">>, <<"U+1F66">>>>, <<<<"U+1F6F">>, <<"U+1F67">>>>,
     <<<<"U+1F88">>, <<"U+1F80">>>>, <<<<"U+1F89">>, <<"U+1F81">>>>,
     <<<<"U+1F8A">>, <<"U+1F82">>>>, <<<<"U+1F8B">>, <<"U+1F83">>>>,
     <<<<"U+1F8C">>, <<"U+1F84">>>>, <<<<"U+1F8D">>, <<"U+1F85">>>>,
     <<<<"U+1F8E">>, <<"U+1F86">>>>, <<<<"U+1F8F">>, <<"U+1F87">>>>,
     <<<<"U+1F98">>, <<"U+1F90">>>>, <<<<"U+1F99">>, <<"U+1F91">>>>,
     <<<<"U+1F9A">>, <<"U+1F92">>>>, <<<<"U+1F9B">>, <<"U+1F93">>>>,
     <<<<"U+1F9C">>, <<"U+1F94">>>>, <<<<"U+1F9D">>, <<"U+1F95">>>>,
     <<<<"U+1F9E">>, <<"U+1F96">>>>, <<<<"U+1F9F">>, <<"U+1F97">>>>,
     <<<<"U+1FA8">>, <<"U+1FA0">>>>, <<<<"U+1FA9">>, <<"U+1FA1">>>>,
     <<<<"U+1FAA">>, <<"U+1FA2">>>>, <<<<"U+1FAB">>, <<"U+1FA3">>>>,
     <<<<"U+1FAC">>, <<"U+1FA4">>>>, <<<<"U+1FAD">>, <<"U+1FA5">>>>,
     <<<<"U+1FAE">>, <<"U+1FA6">>>>, <<<<"U+1FAF">>, <<"U+1FA7">>>>,
     <<<<"U+1FB8">>, <<"U+1FB0">>>>, <<<<"U+1FB9">>, <<"U+1FB1">>>>,
     <<<<"U+1FBA">>, <<"U+1F70">>>>, <<<<"U+1FBB">>, <<"U+1F71">>>>,
     <<<<"U+1FBC">>, <<"U+1FB3">>>>, <<<<"U+1FC8">>, <<"U+1F72">>>>,
     <<<<"U+1FC9">>, <<"U+1F73">>>>, <<<<"U+1FCA">>, <<"U+1F74">>>>,
     <<<<"U+1FCB">>, <<"U+1F75">>>>, <<<<"U+1FCC">>, <<"U+1FC3">>>>,
     <<<<"U+1FD8">>, <<"U+1FD0">>>>, <<<<"U+1FD9">>, <<"U+1FD1">>>>,
     <<<<"U+1FDA">>, <<"U+1F76">>>>, <<<<"U+1FDB">>, <<"U+1F77">>>>,
     <<<<"U+1FE8">>, <<"U+1FE0">>>>, <<<<"U+1FE9">>, <<"U+1FE1">>>>,
     <<<<"U+1FEA">>, <<"U+1F7A">>>>, <<<<"U+1FEB">>, <<"U+1F7B">>>>,
     <<<<"U+1FEC">>, <<"U+1FE5">>>>, <<<<"U+1FF8">>, <<"U+1F78">>>>,
     <<<<"U+1FF9">>, <<"U+1F79">>>>, <<<<"U+1FFA">>, <<"U+1F7C">>>>,
     <<<<"U+1FFB">>, <<"U+1F7D">>>>, <<<<"U+1FFC">>, <<"U+1FF3">>>>,
     <<<<"U+2126">>, <<"U+03C9">>>>, <<<<"U+212A">>, <<"k">>>>,
     <<<<"U+212B">>, <<"U+00E5">>>>, <<<<"U+2132">>, <<"U+214E">>>>,
     <<<<"U+2160">>, <<"U+2170">>>>, <<<<"U+2161">>, <<"U+2171">>>>,
     <<<<"U+2162">>, <<"U+2172">>>>, <<<<"U+2163">>, <<"U+2173">>>>,
     <<<<"U+2164">>, <<"U+2174">>>>, <<<<"U+2165">>, <<"U+2175">>>>,
     <<<<"U+2166">>, <<"U+2176">>>>, <<<<"U+2167">>, <<"U+2177">>>>,
     <<<<"U+2168">>, <<"U+2178">>>>, <<<<"U+2169">>, <<"U+2179">>>>,
     <<<<"U+216A">>, <<"U+217A">>>>, <<<<"U+216B">>, <<"U+217B">>>>,
     <<<<"U+216C">>, <<"U+217C">>>>, <<<<"U+216D">>, <<"U+217D">>>>,
     <<<<"U+216E">>, <<"U+217E">>>>, <<<<"U+216F">>, <<"U+217F">>>>,
     <<<<"U+2183">>, <<"U+2184">>>>, <<<<"U+24B6">>, <<"U+24D0">>>>,
     <<<<"U+24B7">>, <<"U+24D1">>>>, <<<<"U+24B8">>, <<"U+24D2">>>>,
     <<<<"U+24B9">>, <<"U+24D3">>>>, <<<<"U+24BA">>, <<"U+24D4">>>>,
     <<<<"U+24BB">>, <<"U+24D5">>>>, <<<<"U+24BC">>, <<"U+24D6">>>>,
     <<<<"U+24BD">>, <<"U+24D7">>>>, <<<<"U+24BE">>, <<"U+24D8">>>>,
     <<<<"U+24BF">>, <<"U+24D9">>>>, <<<<"U+24C0">>, <<"U+24DA">>>>,
     <<<<"U+24C1">>, <<"U+24DB">>>>, <<<<"U+24C2">>, <<"U+24DC">>>>,
     <<<<"U+24C3">>, <<"U+24DD">>>>, <<<<"U+24C4">>, <<"U+24DE">>>>,
     <<<<"U+24C5">>, <<"U+24DF">>>>, <<<<"U+24C6">>, <<"U+24E0">>>>,
     <<<<"U+24C7">>, <<"U+24E1">>>>, <<<<"U+24C8">>, <<"U+24E2">>>>,
     <<<<"U+24C9">>, <<"U+24E3">>>>, <<<<"U+24CA">>, <<"U+24E4">>>>,
     <<<<"U+24CB">>, <<"U+24E5">>>>, <<<<"U+24CC">>, <<"U+24E6">>>>,
     <<<<"U+24CD">>, <<"U+24E7">>>>, <<<<"U+24CE">>, <<"U+24E8">>>>,
     <<<<"U+24CF">>, <<"U+24E9">>>>, <<<<"U+2C00">>, <<"U+2C30">>>>,
     <<<<"U+2C01">>, <<"U+2C31">>>>, <<<<"U+2C02">>, <<"U+2C32">>>>,
     <<<<"U+2C03">>, <<"U+2C33">>>>, <<<<"U+2C04">>, <<"U+2C34">>>>,
     <<<<"U+2C05">>, <<"U+2C35">>>>, <<<<"U+2C06">>, <<"U+2C36">>>>,
     <<<<"U+2C07">>, <<"U+2C37">>>>, <<<<"U+2C08">>, <<"U+2C38">>>>,
     <<<<"U+2C09">>, <<"U+2C39">>>>, <<<<"U+2C0A">>, <<"U+2C3A">>>>,
     <<<<"U+2C0B">>, <<"U+2C3B">>>>, <<<<"U+2C0C">>, <<"U+2C3C">>>>,
     <<<<"U+2C0D">>, <<"U+2C3D">>>>, <<<<"U+2C0E">>, <<"U+2C3E">>>>,
     <<<<"U+2C0F">>, <<"U+2C3F">>>>, <<<<"U+2C10">>, <<"U+2C40">>>>,
     <<<<"U+2C11">>, <<"U+2C41">>>>, <<<<"U+2C12">>, <<"U+2C42">>>>,
     <<<<"U+2C13">>, <<"U+2C43">>>>, <<<<"U+2C14">>, <<"U+2C44">>>>,
     <<<<"U+2C15">>, <<"U+2C45">>>>, <<<<"U+2C16">>, <<"U+2C46">>>>,
     <<<<"U+2C17">>, <<"U+2C47">>>>, <<<<"U+2C18">>, <<"U+2C48">>>>,
     <<<<"U+2C19">>, <<"U+2C49">>>>, <<<<"U+2C1A">>, <<"U+2C4A">>>>,
     <<<<"U+2C1B">>, <<"U+2C4B">>>>, <<<<"U+2C1C">>, <<"U+2C4C">>>>,
     <<<<"U+2C1D">>, <<"U+2C4D">>>>, <<<<"U+2C1E">>, <<"U+2C4E">>>>,
     <<<<"U+2C1F">>, <<"U+2C4F">>>>, <<<<"U+2C20">>, <<"U+2C50">>>>,
     <<<<"U+2C21">>, <<"U+2C51">>>>, <<<<"U+2C22">>, <<"U+2C52">>>>,
     <<<<"U+2C23">>, <<"U+2C53">>>>, <<<<"U+2C24">>, <<"U+2C54">>>>,
     <<<<"U+2C25">>, <<"U+2C55">>>>, <<<<"U+2C26">>, <<"U+2C56">>>>,
     <<<<"U+2C27">>, <<"U+2C57">>>>, <<<<"U+2C28">>, <<"U+2C58">>>>,
     <<<<"U+2C29">>, <<"U+2C59">>>>, <<<<"U+2C2A">>, <<"U+2C5A">>>>,
     <<<<"U+2C2B">>, <<"U+2C5B">>>>, <<<<"U+2C2C">>, <<"U+2C5C">>>>,
     <<<<"U+2C2D">>, <<"U+2C5D">>>>, <<<<"U+2C2E">>, <<"U+2C5E">>>>,
     <<<<"U+2C2F">>, <<"U+2C5F">>>>, <<<<"U+2C60">>, <<"U+2C61">>>>,
     <<<<"U+2C62">>, <<"U+026B">>>>, <<<<"U+2C63">>, <<"U+1D7D">>>>,
     <<<<"U+2C64">>, <<"U+027D">>>>, <<<<"U+2C67">>, <<"U+2C68">>>>,
     <<<<"U+2C69">>, <<"U+2C6A">>>>, <<<<"U+2C6B">>, <<"U+2C6C">>>>,
     <<<<"U+2C6D">>, <<"U+0251">>>>, <<<<"U+2C6E">>, <<"U+0271">>>>,
     <<<<"U+2C6F">>, <<"U+0250">>>>, <<<<"U+2C70">>, <<"U+0252">>>>,
     <<<<"U+2C72">>, <<"U+2C73">>>>, <<<<"U+2C75">>, <<"U+2C76">>>>,
     <<<<"U+2C7E">>, <<"U+023F">>>>, <<<<"U+2C7F">>, <<"U+0240">>>>,
     <<<<"U+2C80">>, <<"U+2C81">>>>, <<<<"U+2C82">>, <<"U+2C83">>>>,
     <<<<"U+2C84">>, <<"U+2C85">>>>, <<<<"U+2C86">>, <<"U+2C87">>>>,
     <<<<"U+2C88">>, <<"U+2C89">>>>, <<<<"U+2C8A">>, <<"U+2C8B">>>>,
     <<<<"U+2C8C">>, <<"U+2C8D">>>>, <<<<"U+2C8E">>, <<"U+2C8F">>>>,
     <<<<"U+2C90">>, <<"U+2C91">>>>, <<<<"U+2C92">>, <<"U+2C93">>>>,
     <<<<"U+2C94">>, <<"U+2C95">>>>, <<<<"U+2C96">>, <<"U+2C97">>>>,
     <<<<"U+2C98">>, <<"U+2C99">>>>, <<<<"U+2C9A">>, <<"U+2C9B">>>>,
     <<<<"U+2C9C">>, <<"U+2C9D">>>>, <<<<"U+2C9E">>, <<"U+2C9F">>>>,
     <<<<"U+2CA0">>, <<"U+2CA1">>>>, <<<<"U+2CA2">>, <<"U+2CA3">>>>,
     <<<<"U+2CA4">>, <<"U+2CA5">>>>, <<<<"U+2CA6">>, <<"U+2CA7">>>>,
     <<<<"U+2CA8">>, <<"U+2CA9">>>>, <<<<"U+2CAA">>, <<"U+2CAB">>>>,
     <<<<"U+2CAC">>, <<"U+2CAD">>>>, <<<<"U+2CAE">>, <<"U+2CAF">>>>,
     <<<<"U+2CB0">>, <<"U+2CB1">>>>, <<<<"U+2CB2">>, <<"U+2CB3">>>>,
     <<<<"U+2CB4">>, <<"U+2CB5">>>>, <<<<"U+2CB6">>, <<"U+2CB7">>>>,
     <<<<"U+2CB8">>, <<"U+2CB9">>>>, <<<<"U+2CBA">>, <<"U+2CBB">>>>,
     <<<<"U+2CBC">>, <<"U+2CBD">>>>, <<<<"U+2CBE">>, <<"U+2CBF">>>>,
     <<<<"U+2CC0">>, <<"U+2CC1">>>>, <<<<"U+2CC2">>, <<"U+2CC3">>>>,
     <<<<"U+2CC4">>, <<"U+2CC5">>>>, <<<<"U+2CC6">>, <<"U+2CC7">>>>,
     <<<<"U+2CC8">>, <<"U+2CC9">>>>, <<<<"U+2CCA">>, <<"U+2CCB">>>>,
     <<<<"U+2CCC">>, <<"U+2CCD">>>>, <<<<"U+2CCE">>, <<"U+2CCF">>>>,
     <<<<"U+2CD0">>, <<"U+2CD1">>>>, <<<<"U+2CD2">>, <<"U+2CD3">>>>,
     <<<<"U+2CD4">>, <<"U+2CD5">>>>, <<<<"U+2CD6">>, <<"U+2CD7">>>>,
     <<<<"U+2CD8">>, <<"U+2CD9">>>>, <<<<"U+2CDA">>, <<"U+2CDB">>>>,
     <<<<"U+2CDC">>, <<"U+2CDD">>>>, <<<<"U+2CDE">>, <<"U+2CDF">>>>,
     <<<<"U+2CE0">>, <<"U+2CE1">>>>, <<<<"U+2CE2">>, <<"U+2CE3">>>>,
     <<<<"U+2CEB">>, <<"U+2CEC">>>>, <<<<"U+2CED">>, <<"U+2CEE">>>>,
     <<<<"U+2CF2">>, <<"U+2CF3">>>>, <<<<"U+A640">>, <<"U+A641">>>>,
     <<<<"U+A642">>, <<"U+A643">>>>, <<<<"U+A644">>, <<"U+A645">>>>,
     <<<<"U+A646">>, <<"U+A647">>>>, <<<<"U+A648">>, <<"U+A649">>>>,
     <<<<"U+A64A">>, <<"U+A64B">>>>, <<<<"U+A64C">>, <<"U+A64D">>>>,
     <<<<"U+A64E">>, <<"U+A64F">>>>, <<<<"U+A650">>, <<"U+A651">>>>,
     <<<<"U+A652">>, <<"U+A653">>>>, <<<<"U+A654">>, <<"U+A655">>>>,
     <<<<"U+A656">>, <<"U+A657">>>>, <<<<"U+A658">>, <<"U+A659">>>>,
     <<<<"U+A65A">>, <<"U+A65B">>>>, <<<<"U+A65C">>, <<"U+A65D">>>>,
     <<<<"U+A65E">>, <<"U+A65F">>>>, <<<<"U+A660">>, <<"U+A661">>>>,
     <<<<"U+A662">>, <<"U+A663">>>>, <<<<"U+A664">>, <<"U+A665">>>>,
     <<<<"U+A666">>, <<"U+A667">>>>, <<<<"U+A668">>, <<"U+A669">>>>,
     <<<<"U+A66A">>, <<"U+A66B">>>>, <<<<"U+A66C">>, <<"U+A66D">>>>,
     <<<<"U+A680">>, <<"U+A681">>>>, <<<<"U+A682">>, <<"U+A683">>>>,
     <<<<"U+A684">>, <<"U+A685">>>>, <<<<"U+A686">>, <<"U+A687">>>>,
     <<<<"U+A688">>, <<"U+A689">>>>, <<<<"U+A68A">>, <<"U+A68B">>>>,
     <<<<"U+A68C">>, <<"U+A68D">>>>, <<<<"U+A68E">>, <<"U+A68F">>>>,
     <<<<"U+A690">>, <<"U+A691">>>>, <<<<"U+A692">>, <<"U+A693">>>>,
     <<<<"U+A694">>, <<"U+A695">>>>, <<<<"U+A696">>, <<"U+A697">>>>,
     <<<<"U+A698">>, <<"U+A699">>>>, <<<<"U+A69A">>, <<"U+A69B">>>>,
     <<<<"U+A722">>, <<"U+A723">>>>, <<<<"U+A724">>, <<"U+A725">>>>,
     <<<<"U+A726">>, <<"U+A727">>>>, <<<<"U+A728">>, <<"U+A729">>>>,
     <<<<"U+A72A">>, <<"U+A72B">>>>, <<<<"U+A72C">>, <<"U+A72D">>>>,
     <<<<"U+A72E">>, <<"U+A72F">>>>, <<<<"U+A732">>, <<"U+A733">>>>,
     <<<<"U+A734">>, <<"U+A735">>>>, <<<<"U+A736">>, <<"U+A737">>>>,
     <<<<"U+A738">>, <<"U+A739">>>>, <<<<"U+A73A">>, <<"U+A73B">>>>,
     <<<<"U+A73C">>, <<"U+A73D">>>>, <<<<"U+A73E">>, <<"U+A73F">>>>,
     <<<<"U+A740">>, <<"U+A741">>>>, <<<<"U+A742">>, <<"U+A743">>>>,
     <<<<"U+A744">>, <<"U+A745">>>>, <<<<"U+A746">>, <<"U+A747">>>>,
     <<<<"U+A748">>, <<"U+A749">>>>, <<<<"U+A74A">>, <<"U+A74B">>>>,
     <<<<"U+A74C">>, <<"U+A74D">>>>, <<<<"U+A74E">>, <<"U+A74F">>>>,
     <<<<"U+A750">>, <<"U+A751">>>>, <<<<"U+A752">>, <<"U+A753">>>>,
     <<<<"U+A754">>, <<"U+A755">>>>, <<<<"U+A756">>, <<"U+A757">>>>,
     <<<<"U+A758">>, <<"U+A759">>>>, <<<<"U+A75A">>, <<"U+A75B">>>>,
     <<<<"U+A75C">>, <<"U+A75D">>>>, <<<<"U+A75E">>, <<"U+A75F">>>>,
     <<<<"U+A760">>, <<"U+A761">>>>, <<<<"U+A762">>, <<"U+A763">>>>,
     <<<<"U+A764">>, <<"U+A765">>>>, <<<<"U+A766">>, <<"U+A767">>>>,
     <<<<"U+A768">>, <<"U+A769">>>>, <<<<"U+A76A">>, <<"U+A76B">>>>,
     <<<<"U+A76C">>, <<"U+A76D">>>>, <<<<"U+A76E">>, <<"U+A76F">>>>,
     <<<<"U+A779">>, <<"U+A77A">>>>, <<<<"U+A77B">>, <<"U+A77C">>>>,
     <<<<"U+A77D">>, <<"U+1D79">>>>, <<<<"U+A77E">>, <<"U+A77F">>>>,
     <<<<"U+A780">>, <<"U+A781">>>>, <<<<"U+A782">>, <<"U+A783">>>>,
     <<<<"U+A784">>, <<"U+A785">>>>, <<<<"U+A786">>, <<"U+A787">>>>,
     <<<<"U+A78B">>, <<"U+A78C">>>>, <<<<"U+A78D">>, <<"U+0265">>>>,
     <<<<"U+A790">>, <<"U+A791">>>>, <<<<"U+A792">>, <<"U+A793">>>>,
     <<<<"U+A796">>, <<"U+A797">>>>, <<<<"U+A798">>, <<"U+A799">>>>,
     <<<<"U+A79A">>, <<"U+A79B">>>>, <<<<"U+A79C">>, <<"U+A79D">>>>,
     <<<<"U+A79E">>, <<"U+A79F">>>>, <<<<"U+A7A0">>, <<"U+A7A1">>>>,
     <<<<"U+A7A2">>, <<"U+A7A3">>>>, <<<<"U+A7A4">>, <<"U+A7A5">>>>,
     <<<<"U+A7A6">>, <<"U+A7A7">>>>, <<<<"U+A7A8">>, <<"U+A7A9">>>>,
     <<<<"U+A7AA">>, <<"U+0266">>>>, <<<<"U+A7AB">>, <<"U+025C">>>>,
     <<<<"U+A7AC">>, <<"U+0261">>>>, <<<<"U+A7AD">>, <<"U+026C">>>>,
     <<<<"U+A7AE">>, <<"U+026A">>>>, <<<<"U+A7B0">>, <<"U+029E">>>>,
     <<<<"U+A7B1">>, <<"U+0287">>>>, <<<<"U+A7B2">>, <<"U+029D">>>>,
     <<<<"U+A7B3">>, <<"U+AB53">>>>, <<<<"U+A7B4">>, <<"U+A7B5">>>>,
     <<<<"U+A7B6">>, <<"U+A7B7">>>>, <<<<"U+A7B8">>, <<"U+A7B9">>>>,
     <<<<"U+A7BA">>, <<"U+A7BB">>>>, <<<<"U+A7BC">>, <<"U+A7BD">>>>,
     <<<<"U+A7BE">>, <<"U+A7BF">>>>, <<<<"U+A7C0">>, <<"U+A7C1">>>>,
     <<<<"U+A7C2">>, <<"U+A7C3">>>>, <<<<"U+A7C4">>, <<"U+A794">>>>,
     <<<<"U+A7C5">>, <<"U+0282">>>>, <<<<"U+A7C6">>, <<"U+1D8E">>>>,
     <<<<"U+A7C7">>, <<"U+A7C8">>>>, <<<<"U+A7C9">>, <<"U+A7CA">>>>,
     <<<<"U+A7CB">>, <<"U+0264">>>>, <<<<"U+A7CC">>, <<"U+A7CD">>>>,
     <<<<"U+A7CE">>, <<"U+A7CF">>>>, <<<<"U+A7D0">>, <<"U+A7D1">>>>,
     <<<<"U+A7D2">>, <<"U+A7D3">>>>, <<<<"U+A7D4">>, <<"U+A7D5">>>>,
     <<<<"U+A7D6">>, <<"U+A7D7">>>>, <<<<"U+A7D8">>, <<"U+A7D9">>>>,
     <<<<"U+A7DA">>, <<"U+A7DB">>>>, <<<<"U+A7DC">>, <<"U+019B">>>>,
     <<<<"U+A7F5">>, <<"U+A7F6">>>>, <<<<"U+FF21">>, <<"U+FF41">>>>,
     <<<<"U+FF22">>, <<"U+FF42">>>>, <<<<"U+FF23">>, <<"U+FF43">>>>,
     <<<<"U+FF24">>, <<"U+FF44">>>>, <<<<"U+FF25">>, <<"U+FF45">>>>,
     <<<<"U+FF26">>, <<"U+FF46">>>>, <<<<"U+FF27">>, <<"U+FF47">>>>,
     <<<<"U+FF28">>, <<"U+FF48">>>>, <<<<"U+FF29">>, <<"U+FF49">>>>,
     <<<<"U+FF2A">>, <<"U+FF4A">>>>, <<<<"U+FF2B">>, <<"U+FF4B">>>>,
     <<<<"U+FF2C">>, <<"U+FF4C">>>>, <<<<"U+FF2D">>, <<"U+FF4D">>>>,
     <<<<"U+FF2E">>, <<"U+FF4E">>>>, <<<<"U+FF2F">>, <<"U+FF4F">>>>,
     <<<<"U+FF30">>, <<"U+FF50">>>>, <<<<"U+FF31">>, <<"U+FF51">>>>,
     <<<<"U+FF32">>, <<"U+FF52">>>>, <<<<"U+FF33">>, <<"U+FF53">>>>,
     <<<<"U+FF34">>, <<"U+FF54">>>>, <<<<"U+FF35">>, <<"U+FF55">>>>,
     <<<<"U+FF36">>, <<"U+FF56">>>>, <<<<"U+FF37">>, <<"U+FF57">>>>,
     <<<<"U+FF38">>, <<"U+FF58">>>>, <<<<"U+FF39">>, <<"U+FF59">>>>,
     <<<<"U+FF3A">>, <<"U+FF5A">>>>,
     <<<<"U+D801", "U+DC00">>, <<"U+D801", "U+DC28">>>>,
     <<<<"U+D801", "U+DC01">>, <<"U+D801", "U+DC29">>>>,
     <<<<"U+D801", "U+DC02">>, <<"U+D801", "U+DC2A">>>>,
     <<<<"U+D801", "U+DC03">>, <<"U+D801", "U+DC2B">>>>,
     <<<<"U+D801", "U+DC04">>, <<"U+D801", "U+DC2C">>>>,
     <<<<"U+D801", "U+DC05">>, <<"U+D801", "U+DC2D">>>>,
     <<<<"U+D801", "U+DC06">>, <<"U+D801", "U+DC2E">>>>,
     <<<<"U+D801", "U+DC07">>, <<"U+D801", "U+DC2F">>>>,
     <<<<"U+D801", "U+DC08">>, <<"U+D801", "U+DC30">>>>,
     <<<<"U+D801", "U+DC09">>, <<"U+D801", "U+DC31">>>>,
     <<<<"U+D801", "U+DC0A">>, <<"U+D801", "U+DC32">>>>,
     <<<<"U+D801", "U+DC0B">>, <<"U+D801", "U+DC33">>>>,
     <<<<"U+D801", "U+DC0C">>, <<"U+D801", "U+DC34">>>>,
     <<<<"U+D801", "U+DC0D">>, <<"U+D801", "U+DC35">>>>,
     <<<<"U+D801", "U+DC0E">>, <<"U+D801", "U+DC36">>>>,
     <<<<"U+D801", "U+DC0F">>, <<"U+D801", "U+DC37">>>>,
     <<<<"U+D801", "U+DC10">>, <<"U+D801", "U+DC38">>>>,
     <<<<"U+D801", "U+DC11">>, <<"U+D801", "U+DC39">>>>,
     <<<<"U+D801", "U+DC12">>, <<"U+D801", "U+DC3A">>>>,
     <<<<"U+D801", "U+DC13">>, <<"U+D801", "U+DC3B">>>>,
     <<<<"U+D801", "U+DC14">>, <<"U+D801", "U+DC3C">>>>,
     <<<<"U+D801", "U+DC15">>, <<"U+D801", "U+DC3D">>>>,
     <<<<"U+D801", "U+DC16">>, <<"U+D801", "U+DC3E">>>>,
     <<<<"U+D801", "U+DC17">>, <<"U+D801", "U+DC3F">>>>,
     <<<<"U+D801", "U+DC18">>, <<"U+D801", "U+DC40">>>>,
     <<<<"U+D801", "U+DC19">>, <<"U+D801", "U+DC41">>>>,
     <<<<"U+D801", "U+DC1A">>, <<"U+D801", "U+DC42">>>>,
     <<<<"U+D801", "U+DC1B">>, <<"U+D801", "U+DC43">>>>,
     <<<<"U+D801", "U+DC1C">>, <<"U+D801", "U+DC44">>>>,
     <<<<"U+D801", "U+DC1D">>, <<"U+D801", "U+DC45">>>>,
     <<<<"U+D801", "U+DC1E">>, <<"U+D801", "U+DC46">>>>,
     <<<<"U+D801", "U+DC1F">>, <<"U+D801", "U+DC47">>>>,
     <<<<"U+D801", "U+DC20">>, <<"U+D801", "U+DC48">>>>,
     <<<<"U+D801", "U+DC21">>, <<"U+D801", "U+DC49">>>>,
     <<<<"U+D801", "U+DC22">>, <<"U+D801", "U+DC4A">>>>,
     <<<<"U+D801", "U+DC23">>, <<"U+D801", "U+DC4B">>>>,
     <<<<"U+D801", "U+DC24">>, <<"U+D801", "U+DC4C">>>>,
     <<<<"U+D801", "U+DC25">>, <<"U+D801", "U+DC4D">>>>,
     <<<<"U+D801", "U+DC26">>, <<"U+D801", "U+DC4E">>>>,
     <<<<"U+D801", "U+DC27">>, <<"U+D801", "U+DC4F">>>>,
     <<<<"U+D801", "U+DCB0">>, <<"U+D801", "U+DCD8">>>>,
     <<<<"U+D801", "U+DCB1">>, <<"U+D801", "U+DCD9">>>>,
     <<<<"U+D801", "U+DCB2">>, <<"U+D801", "U+DCDA">>>>,
     <<<<"U+D801", "U+DCB3">>, <<"U+D801", "U+DCDB">>>>,
     <<<<"U+D801", "U+DCB4">>, <<"U+D801", "U+DCDC">>>>,
     <<<<"U+D801", "U+DCB5">>, <<"U+D801", "U+DCDD">>>>,
     <<<<"U+D801", "U+DCB6">>, <<"U+D801", "U+DCDE">>>>,
     <<<<"U+D801", "U+DCB7">>, <<"U+D801", "U+DCDF">>>>,
     <<<<"U+D801", "U+DCB8">>, <<"U+D801", "U+DCE0">>>>,
     <<<<"U+D801", "U+DCB9">>, <<"U+D801", "U+DCE1">>>>,
     <<<<"U+D801", "U+DCBA">>, <<"U+D801", "U+DCE2">>>>,
     <<<<"U+D801", "U+DCBB">>, <<"U+D801", "U+DCE3">>>>,
     <<<<"U+D801", "U+DCBC">>, <<"U+D801", "U+DCE4">>>>,
     <<<<"U+D801", "U+DCBD">>, <<"U+D801", "U+DCE5">>>>,
     <<<<"U+D801", "U+DCBE">>, <<"U+D801", "U+DCE6">>>>,
     <<<<"U+D801", "U+DCBF">>, <<"U+D801", "U+DCE7">>>>,
     <<<<"U+D801", "U+DCC0">>, <<"U+D801", "U+DCE8">>>>,
     <<<<"U+D801", "U+DCC1">>, <<"U+D801", "U+DCE9">>>>,
     <<<<"U+D801", "U+DCC2">>, <<"U+D801", "U+DCEA">>>>,
     <<<<"U+D801", "U+DCC3">>, <<"U+D801", "U+DCEB">>>>,
     <<<<"U+D801", "U+DCC4">>, <<"U+D801", "U+DCEC">>>>,
     <<<<"U+D801", "U+DCC5">>, <<"U+D801", "U+DCED">>>>,
     <<<<"U+D801", "U+DCC6">>, <<"U+D801", "U+DCEE">>>>,
     <<<<"U+D801", "U+DCC7">>, <<"U+D801", "U+DCEF">>>>,
     <<<<"U+D801", "U+DCC8">>, <<"U+D801", "U+DCF0">>>>,
     <<<<"U+D801", "U+DCC9">>, <<"U+D801", "U+DCF1">>>>,
     <<<<"U+D801", "U+DCCA">>, <<"U+D801", "U+DCF2">>>>,
     <<<<"U+D801", "U+DCCB">>, <<"U+D801", "U+DCF3">>>>,
     <<<<"U+D801", "U+DCCC">>, <<"U+D801", "U+DCF4">>>>,
     <<<<"U+D801", "U+DCCD">>, <<"U+D801", "U+DCF5">>>>,
     <<<<"U+D801", "U+DCCE">>, <<"U+D801", "U+DCF6">>>>,
     <<<<"U+D801", "U+DCCF">>, <<"U+D801", "U+DCF7">>>>,
     <<<<"U+D801", "U+DCD0">>, <<"U+D801", "U+DCF8">>>>,
     <<<<"U+D801", "U+DCD1">>, <<"U+D801", "U+DCF9">>>>,
     <<<<"U+D801", "U+DCD2">>, <<"U+D801", "U+DCFA">>>>,
     <<<<"U+D801", "U+DCD3">>, <<"U+D801", "U+DCFB">>>>,
     <<<<"U+D801", "U+DD70">>, <<"U+D801", "U+DD97">>>>,
     <<<<"U+D801", "U+DD71">>, <<"U+D801", "U+DD98">>>>,
     <<<<"U+D801", "U+DD72">>, <<"U+D801", "U+DD99">>>>,
     <<<<"U+D801", "U+DD73">>, <<"U+D801", "U+DD9A">>>>,
     <<<<"U+D801", "U+DD74">>, <<"U+D801", "U+DD9B">>>>,
     <<<<"U+D801", "U+DD75">>, <<"U+D801", "U+DD9C">>>>,
     <<<<"U+D801", "U+DD76">>, <<"U+D801", "U+DD9D">>>>,
     <<<<"U+D801", "U+DD77">>, <<"U+D801", "U+DD9E">>>>,
     <<<<"U+D801", "U+DD78">>, <<"U+D801", "U+DD9F">>>>,
     <<<<"U+D801", "U+DD79">>, <<"U+D801", "U+DDA0">>>>,
     <<<<"U+D801", "U+DD7A">>, <<"U+D801", "U+DDA1">>>>,
     <<<<"U+D801", "U+DD7C">>, <<"U+D801", "U+DDA3">>>>,
     <<<<"U+D801", "U+DD7D">>, <<"U+D801", "U+DDA4">>>>,
     <<<<"U+D801", "U+DD7E">>, <<"U+D801", "U+DDA5">>>>,
     <<<<"U+D801", "U+DD7F">>, <<"U+D801", "U+DDA6">>>>,
     <<<<"U+D801", "U+DD80">>, <<"U+D801", "U+DDA7">>>>,
     <<<<"U+D801", "U+DD81">>, <<"U+D801", "U+DDA8">>>>,
     <<<<"U+D801", "U+DD82">>, <<"U+D801", "U+DDA9">>>>,
     <<<<"U+D801", "U+DD83">>, <<"U+D801", "U+DDAA">>>>,
     <<<<"U+D801", "U+DD84">>, <<"U+D801", "U+DDAB">>>>,
     <<<<"U+D801", "U+DD85">>, <<"U+D801", "U+DDAC">>>>,
     <<<<"U+D801", "U+DD86">>, <<"U+D801", "U+DDAD">>>>,
     <<<<"U+D801", "U+DD87">>, <<"U+D801", "U+DDAE">>>>,
     <<<<"U+D801", "U+DD88">>, <<"U+D801", "U+DDAF">>>>,
     <<<<"U+D801", "U+DD89">>, <<"U+D801", "U+DDB0">>>>,
     <<<<"U+D801", "U+DD8A">>, <<"U+D801", "U+DDB1">>>>,
     <<<<"U+D801", "U+DD8C">>, <<"U+D801", "U+DDB3">>>>,
     <<<<"U+D801", "U+DD8D">>, <<"U+D801", "U+DDB4">>>>,
     <<<<"U+D801", "U+DD8E">>, <<"U+D801", "U+DDB5">>>>,
     <<<<"U+D801", "U+DD8F">>, <<"U+D801", "U+DDB6">>>>,
     <<<<"U+D801", "U+DD90">>, <<"U+D801", "U+DDB7">>>>,
     <<<<"U+D801", "U+DD91">>, <<"U+D801", "U+DDB8">>>>,
     <<<<"U+D801", "U+DD92">>, <<"U+D801", "U+DDB9">>>>,
     <<<<"U+D801", "U+DD94">>, <<"U+D801", "U+DDBB">>>>,
     <<<<"U+D801", "U+DD95">>, <<"U+D801", "U+DDBC">>>>,
     <<<<"U+D803", "U+DC80">>, <<"U+D803", "U+DCC0">>>>,
     <<<<"U+D803", "U+DC81">>, <<"U+D803", "U+DCC1">>>>,
     <<<<"U+D803", "U+DC82">>, <<"U+D803", "U+DCC2">>>>,
     <<<<"U+D803", "U+DC83">>, <<"U+D803", "U+DCC3">>>>,
     <<<<"U+D803", "U+DC84">>, <<"U+D803", "U+DCC4">>>>,
     <<<<"U+D803", "U+DC85">>, <<"U+D803", "U+DCC5">>>>,
     <<<<"U+D803", "U+DC86">>, <<"U+D803", "U+DCC6">>>>,
     <<<<"U+D803", "U+DC87">>, <<"U+D803", "U+DCC7">>>>,
     <<<<"U+D803", "U+DC88">>, <<"U+D803", "U+DCC8">>>>,
     <<<<"U+D803", "U+DC89">>, <<"U+D803", "U+DCC9">>>>,
     <<<<"U+D803", "U+DC8A">>, <<"U+D803", "U+DCCA">>>>,
     <<<<"U+D803", "U+DC8B">>, <<"U+D803", "U+DCCB">>>>,
     <<<<"U+D803", "U+DC8C">>, <<"U+D803", "U+DCCC">>>>,
     <<<<"U+D803", "U+DC8D">>, <<"U+D803", "U+DCCD">>>>,
     <<<<"U+D803", "U+DC8E">>, <<"U+D803", "U+DCCE">>>>,
     <<<<"U+D803", "U+DC8F">>, <<"U+D803", "U+DCCF">>>>,
     <<<<"U+D803", "U+DC90">>, <<"U+D803", "U+DCD0">>>>,
     <<<<"U+D803", "U+DC91">>, <<"U+D803", "U+DCD1">>>>,
     <<<<"U+D803", "U+DC92">>, <<"U+D803", "U+DCD2">>>>,
     <<<<"U+D803", "U+DC93">>, <<"U+D803", "U+DCD3">>>>,
     <<<<"U+D803", "U+DC94">>, <<"U+D803", "U+DCD4">>>>,
     <<<<"U+D803", "U+DC95">>, <<"U+D803", "U+DCD5">>>>,
     <<<<"U+D803", "U+DC96">>, <<"U+D803", "U+DCD6">>>>,
     <<<<"U+D803", "U+DC97">>, <<"U+D803", "U+DCD7">>>>,
     <<<<"U+D803", "U+DC98">>, <<"U+D803", "U+DCD8">>>>,
     <<<<"U+D803", "U+DC99">>, <<"U+D803", "U+DCD9">>>>,
     <<<<"U+D803", "U+DC9A">>, <<"U+D803", "U+DCDA">>>>,
     <<<<"U+D803", "U+DC9B">>, <<"U+D803", "U+DCDB">>>>,
     <<<<"U+D803", "U+DC9C">>, <<"U+D803", "U+DCDC">>>>,
     <<<<"U+D803", "U+DC9D">>, <<"U+D803", "U+DCDD">>>>,
     <<<<"U+D803", "U+DC9E">>, <<"U+D803", "U+DCDE">>>>,
     <<<<"U+D803", "U+DC9F">>, <<"U+D803", "U+DCDF">>>>,
     <<<<"U+D803", "U+DCA0">>, <<"U+D803", "U+DCE0">>>>,
     <<<<"U+D803", "U+DCA1">>, <<"U+D803", "U+DCE1">>>>,
     <<<<"U+D803", "U+DCA2">>, <<"U+D803", "U+DCE2">>>>,
     <<<<"U+D803", "U+DCA3">>, <<"U+D803", "U+DCE3">>>>,
     <<<<"U+D803", "U+DCA4">>, <<"U+D803", "U+DCE4">>>>,
     <<<<"U+D803", "U+DCA5">>, <<"U+D803", "U+DCE5">>>>,
     <<<<"U+D803", "U+DCA6">>, <<"U+D803", "U+DCE6">>>>,
     <<<<"U+D803", "U+DCA7">>, <<"U+D803", "U+DCE7">>>>,
     <<<<"U+D803", "U+DCA8">>, <<"U+D803", "U+DCE8">>>>,
     <<<<"U+D803", "U+DCA9">>, <<"U+D803", "U+DCE9">>>>,
     <<<<"U+D803", "U+DCAA">>, <<"U+D803", "U+DCEA">>>>,
     <<<<"U+D803", "U+DCAB">>, <<"U+D803", "U+DCEB">>>>,
     <<<<"U+D803", "U+DCAC">>, <<"U+D803", "U+DCEC">>>>,
     <<<<"U+D803", "U+DCAD">>, <<"U+D803", "U+DCED">>>>,
     <<<<"U+D803", "U+DCAE">>, <<"U+D803", "U+DCEE">>>>,
     <<<<"U+D803", "U+DCAF">>, <<"U+D803", "U+DCEF">>>>,
     <<<<"U+D803", "U+DCB0">>, <<"U+D803", "U+DCF0">>>>,
     <<<<"U+D803", "U+DCB1">>, <<"U+D803", "U+DCF1">>>>,
     <<<<"U+D803", "U+DCB2">>, <<"U+D803", "U+DCF2">>>>,
     <<<<"U+D803", "U+DD50">>, <<"U+D803", "U+DD70">>>>,
     <<<<"U+D803", "U+DD51">>, <<"U+D803", "U+DD71">>>>,
     <<<<"U+D803", "U+DD52">>, <<"U+D803", "U+DD72">>>>,
     <<<<"U+D803", "U+DD53">>, <<"U+D803", "U+DD73">>>>,
     <<<<"U+D803", "U+DD54">>, <<"U+D803", "U+DD74">>>>,
     <<<<"U+D803", "U+DD55">>, <<"U+D803", "U+DD75">>>>,
     <<<<"U+D803", "U+DD56">>, <<"U+D803", "U+DD76">>>>,
     <<<<"U+D803", "U+DD57">>, <<"U+D803", "U+DD77">>>>,
     <<<<"U+D803", "U+DD58">>, <<"U+D803", "U+DD78">>>>,
     <<<<"U+D803", "U+DD59">>, <<"U+D803", "U+DD79">>>>,
     <<<<"U+D803", "U+DD5A">>, <<"U+D803", "U+DD7A">>>>,
     <<<<"U+D803", "U+DD5B">>, <<"U+D803", "U+DD7B">>>>,
     <<<<"U+D803", "U+DD5C">>, <<"U+D803", "U+DD7C">>>>,
     <<<<"U+D803", "U+DD5D">>, <<"U+D803", "U+DD7D">>>>,
     <<<<"U+D803", "U+DD5E">>, <<"U+D803", "U+DD7E">>>>,
     <<<<"U+D803", "U+DD5F">>, <<"U+D803", "U+DD7F">>>>,
     <<<<"U+D803", "U+DD60">>, <<"U+D803", "U+DD80">>>>,
     <<<<"U+D803", "U+DD61">>, <<"U+D803", "U+DD81">>>>,
     <<<<"U+D803", "U+DD62">>, <<"U+D803", "U+DD82">>>>,
     <<<<"U+D803", "U+DD63">>, <<"U+D803", "U+DD83">>>>,
     <<<<"U+D803", "U+DD64">>, <<"U+D803", "U+DD84">>>>,
     <<<<"U+D803", "U+DD65">>, <<"U+D803", "U+DD85">>>>,
     <<<<"U+D806", "U+DCA0">>, <<"U+D806", "U+DCC0">>>>,
     <<<<"U+D806", "U+DCA1">>, <<"U+D806", "U+DCC1">>>>,
     <<<<"U+D806", "U+DCA2">>, <<"U+D806", "U+DCC2">>>>,
     <<<<"U+D806", "U+DCA3">>, <<"U+D806", "U+DCC3">>>>,
     <<<<"U+D806", "U+DCA4">>, <<"U+D806", "U+DCC4">>>>,
     <<<<"U+D806", "U+DCA5">>, <<"U+D806", "U+DCC5">>>>,
     <<<<"U+D806", "U+DCA6">>, <<"U+D806", "U+DCC6">>>>,
     <<<<"U+D806", "U+DCA7">>, <<"U+D806", "U+DCC7">>>>,
     <<<<"U+D806", "U+DCA8">>, <<"U+D806", "U+DCC8">>>>,
     <<<<"U+D806", "U+DCA9">>, <<"U+D806", "U+DCC9">>>>,
     <<<<"U+D806", "U+DCAA">>, <<"U+D806", "U+DCCA">>>>,
     <<<<"U+D806", "U+DCAB">>, <<"U+D806", "U+DCCB">>>>,
     <<<<"U+D806", "U+DCAC">>, <<"U+D806", "U+DCCC">>>>,
     <<<<"U+D806", "U+DCAD">>, <<"U+D806", "U+DCCD">>>>,
     <<<<"U+D806", "U+DCAE">>, <<"U+D806", "U+DCCE">>>>,
     <<<<"U+D806", "U+DCAF">>, <<"U+D806", "U+DCCF">>>>,
     <<<<"U+D806", "U+DCB0">>, <<"U+D806", "U+DCD0">>>>,
     <<<<"U+D806", "U+DCB1">>, <<"U+D806", "U+DCD1">>>>,
     <<<<"U+D806", "U+DCB2">>, <<"U+D806", "U+DCD2">>>>,
     <<<<"U+D806", "U+DCB3">>, <<"U+D806", "U+DCD3">>>>,
     <<<<"U+D806", "U+DCB4">>, <<"U+D806", "U+DCD4">>>>,
     <<<<"U+D806", "U+DCB5">>, <<"U+D806", "U+DCD5">>>>,
     <<<<"U+D806", "U+DCB6">>, <<"U+D806", "U+DCD6">>>>,
     <<<<"U+D806", "U+DCB7">>, <<"U+D806", "U+DCD7">>>>,
     <<<<"U+D806", "U+DCB8">>, <<"U+D806", "U+DCD8">>>>,
     <<<<"U+D806", "U+DCB9">>, <<"U+D806", "U+DCD9">>>>,
     <<<<"U+D806", "U+DCBA">>, <<"U+D806", "U+DCDA">>>>,
     <<<<"U+D806", "U+DCBB">>, <<"U+D806", "U+DCDB">>>>,
     <<<<"U+D806", "U+DCBC">>, <<"U+D806", "U+DCDC">>>>,
     <<<<"U+D806", "U+DCBD">>, <<"U+D806", "U+DCDD">>>>,
     <<<<"U+D806", "U+DCBE">>, <<"U+D806", "U+DCDE">>>>,
     <<<<"U+D806", "U+DCBF">>, <<"U+D806", "U+DCDF">>>>,
     <<<<"U+D81B", "U+DE40">>, <<"U+D81B", "U+DE60">>>>,
     <<<<"U+D81B", "U+DE41">>, <<"U+D81B", "U+DE61">>>>,
     <<<<"U+D81B", "U+DE42">>, <<"U+D81B", "U+DE62">>>>,
     <<<<"U+D81B", "U+DE43">>, <<"U+D81B", "U+DE63">>>>,
     <<<<"U+D81B", "U+DE44">>, <<"U+D81B", "U+DE64">>>>,
     <<<<"U+D81B", "U+DE45">>, <<"U+D81B", "U+DE65">>>>,
     <<<<"U+D81B", "U+DE46">>, <<"U+D81B", "U+DE66">>>>,
     <<<<"U+D81B", "U+DE47">>, <<"U+D81B", "U+DE67">>>>,
     <<<<"U+D81B", "U+DE48">>, <<"U+D81B", "U+DE68">>>>,
     <<<<"U+D81B", "U+DE49">>, <<"U+D81B", "U+DE69">>>>,
     <<<<"U+D81B", "U+DE4A">>, <<"U+D81B", "U+DE6A">>>>,
     <<<<"U+D81B", "U+DE4B">>, <<"U+D81B", "U+DE6B">>>>,
     <<<<"U+D81B", "U+DE4C">>, <<"U+D81B", "U+DE6C">>>>,
     <<<<"U+D81B", "U+DE4D">>, <<"U+D81B", "U+DE6D">>>>,
     <<<<"U+D81B", "U+DE4E">>, <<"U+D81B", "U+DE6E">>>>,
     <<<<"U+D81B", "U+DE4F">>, <<"U+D81B", "U+DE6F">>>>,
     <<<<"U+D81B", "U+DE50">>, <<"U+D81B", "U+DE70">>>>,
     <<<<"U+D81B", "U+DE51">>, <<"U+D81B", "U+DE71">>>>,
     <<<<"U+D81B", "U+DE52">>, <<"U+D81B", "U+DE72">>>>,
     <<<<"U+D81B", "U+DE53">>, <<"U+D81B", "U+DE73">>>>,
     <<<<"U+D81B", "U+DE54">>, <<"U+D81B", "U+DE74">>>>,
     <<<<"U+D81B", "U+DE55">>, <<"U+D81B", "U+DE75">>>>,
     <<<<"U+D81B", "U+DE56">>, <<"U+D81B", "U+DE76">>>>,
     <<<<"U+D81B", "U+DE57">>, <<"U+D81B", "U+DE77">>>>,
     <<<<"U+D81B", "U+DE58">>, <<"U+D81B", "U+DE78">>>>,
     <<<<"U+D81B", "U+DE59">>, <<"U+D81B", "U+DE79">>>>,
     <<<<"U+D81B", "U+DE5A">>, <<"U+D81B", "U+DE7A">>>>,
     <<<<"U+D81B", "U+DE5B">>, <<"U+D81B", "U+DE7B">>>>,
     <<<<"U+D81B", "U+DE5C">>, <<"U+D81B", "U+DE7C">>>>,
     <<<<"U+D81B", "U+DE5D">>, <<"U+D81B", "U+DE7D">>>>,
     <<<<"U+D81B", "U+DE5E">>, <<"U+D81B", "U+DE7E">>>>,
     <<<<"U+D81B", "U+DE5F">>, <<"U+D81B", "U+DE7F">>>>,
     <<<<"U+D81B", "U+DEA0">>, <<"U+D81B", "U+DEBB">>>>,
     <<<<"U+D81B", "U+DEA1">>, <<"U+D81B", "U+DEBC">>>>,
     <<<<"U+D81B", "U+DEA2">>, <<"U+D81B", "U+DEBD">>>>,
     <<<<"U+D81B", "U+DEA3">>, <<"U+D81B", "U+DEBE">>>>,
     <<<<"U+D81B", "U+DEA4">>, <<"U+D81B", "U+DEBF">>>>,
     <<<<"U+D81B", "U+DEA5">>, <<"U+D81B", "U+DEC0">>>>,
     <<<<"U+D81B", "U+DEA6">>, <<"U+D81B", "U+DEC1">>>>,
     <<<<"U+D81B", "U+DEA7">>, <<"U+D81B", "U+DEC2">>>>,
     <<<<"U+D81B", "U+DEA8">>, <<"U+D81B", "U+DEC3">>>>,
     <<<<"U+D81B", "U+DEA9">>, <<"U+D81B", "U+DEC4">>>>,
     <<<<"U+D81B", "U+DEAA">>, <<"U+D81B", "U+DEC5">>>>,
     <<<<"U+D81B", "U+DEAB">>, <<"U+D81B", "U+DEC6">>>>,
     <<<<"U+D81B", "U+DEAC">>, <<"U+D81B", "U+DEC7">>>>,
     <<<<"U+D81B", "U+DEAD">>, <<"U+D81B", "U+DEC8">>>>,
     <<<<"U+D81B", "U+DEAE">>, <<"U+D81B", "U+DEC9">>>>,
     <<<<"U+D81B", "U+DEAF">>, <<"U+D81B", "U+DECA">>>>,
     <<<<"U+D81B", "U+DEB0">>, <<"U+D81B", "U+DECB">>>>,
     <<<<"U+D81B", "U+DEB1">>, <<"U+D81B", "U+DECC">>>>,
     <<<<"U+D81B", "U+DEB2">>, <<"U+D81B", "U+DECD">>>>,
     <<<<"U+D81B", "U+DEB3">>, <<"U+D81B", "U+DECE">>>>,
     <<<<"U+D81B", "U+DEB4">>, <<"U+D81B", "U+DECF">>>>,
     <<<<"U+D81B", "U+DEB5">>, <<"U+D81B", "U+DED0">>>>,
     <<<<"U+D81B", "U+DEB6">>, <<"U+D81B", "U+DED1">>>>,
     <<<<"U+D81B", "U+DEB7">>, <<"U+D81B", "U+DED2">>>>,
     <<<<"U+D81B", "U+DEB8">>, <<"U+D81B", "U+DED3">>>>,
     <<<<"U+D83A", "U+DD00">>, <<"U+D83A", "U+DD22">>>>,
     <<<<"U+D83A", "U+DD01">>, <<"U+D83A", "U+DD23">>>>,
     <<<<"U+D83A", "U+DD02">>, <<"U+D83A", "U+DD24">>>>,
     <<<<"U+D83A", "U+DD03">>, <<"U+D83A", "U+DD25">>>>,
     <<<<"U+D83A", "U+DD04">>, <<"U+D83A", "U+DD26">>>>,
     <<<<"U+D83A", "U+DD05">>, <<"U+D83A", "U+DD27">>>>,
     <<<<"U+D83A", "U+DD06">>, <<"U+D83A", "U+DD28">>>>,
     <<<<"U+D83A", "U+DD07">>, <<"U+D83A", "U+DD29">>>>,
     <<<<"U+D83A", "U+DD08">>, <<"U+D83A", "U+DD2A">>>>,
     <<<<"U+D83A", "U+DD09">>, <<"U+D83A", "U+DD2B">>>>,
     <<<<"U+D83A", "U+DD0A">>, <<"U+D83A", "U+DD2C">>>>,
     <<<<"U+D83A", "U+DD0B">>, <<"U+D83A", "U+DD2D">>>>,
     <<<<"U+D83A", "U+DD0C">>, <<"U+D83A", "U+DD2E">>>>,
     <<<<"U+D83A", "U+DD0D">>, <<"U+D83A", "U+DD2F">>>>,
     <<<<"U+D83A", "U+DD0E">>, <<"U+D83A", "U+DD30">>>>,
     <<<<"U+D83A", "U+DD0F">>, <<"U+D83A", "U+DD31">>>>,
     <<<<"U+D83A", "U+DD10">>, <<"U+D83A", "U+DD32">>>>,
     <<<<"U+D83A", "U+DD11">>, <<"U+D83A", "U+DD33">>>>,
     <<<<"U+D83A", "U+DD12">>, <<"U+D83A", "U+DD34">>>>,
     <<<<"U+D83A", "U+DD13">>, <<"U+D83A", "U+DD35">>>>,
     <<<<"U+D83A", "U+DD14">>, <<"U+D83A", "U+DD36">>>>,
     <<<<"U+D83A", "U+DD15">>, <<"U+D83A", "U+DD37">>>>,
     <<<<"U+D83A", "U+DD16">>, <<"U+D83A", "U+DD38">>>>,
     <<<<"U+D83A", "U+DD17">>, <<"U+D83A", "U+DD39">>>>,
     <<<<"U+D83A", "U+DD18">>, <<"U+D83A", "U+DD3A">>>>,
     <<<<"U+D83A", "U+DD19">>, <<"U+D83A", "U+DD3B">>>>,
     <<<<"U+D83A", "U+DD1A">>, <<"U+D83A", "U+DD3C">>>>,
     <<<<"U+D83A", "U+DD1B">>, <<"U+D83A", "U+DD3D">>>>,
     <<<<"U+D83A", "U+DD1C">>, <<"U+D83A", "U+DD3E">>>>,
     <<<<"U+D83A", "U+DD1D">>, <<"U+D83A", "U+DD3F">>>>,
     <<<<"U+D83A", "U+DD1E">>, <<"U+D83A", "U+DD40">>>>,
     <<<<"U+D83A", "U+DD1F">>, <<"U+D83A", "U+DD41">>>>,
     <<<<"U+D83A", "U+DD20">>, <<"U+D83A", "U+DD42">>>>,
     <<<<"U+D83A", "U+DD21">>, <<"U+D83A", "U+DD43">>>>}

\* the characters the search for a cased letter around a sigma passes over
CaseIgnorable ==
    {<<"'">>, <<".">>, <<":">>, <<"^">>, <<"U+0060">>, <<"U+00A8">>,
     <<"U+00AD">>, <<"U+00AF">>, <<"U+00B4">>, <<"U+00B7">>, <<"U+00B8">>,
     <<"U+02B0">>, <<"U+02B1">>, <<"U+02B2">>, <<"U+02B3">>, <<"U+02B4">>,
     <<"U+02B5">>, <<"U+02B6">>, <<"U+02B7">>, <<"U+02B8">>, <<"U+02B9">>,
     <<"U+02BA">>, <<"U+02BB">>, <<"U+02BC">>, <<"U+02BD">>, <<"U+02BE">>,
     <<"U+02BF">>, <<"U+02C0">>, <<"U+02C1">>, <<"U+02C2">>, <<"U+02C3">>,
     <<"U+02C4">>, <<"U+02C5">>, <<"U+02C6">>, <<"U+02C7">>, <<"U+02C8">>,
     <<"U+02C9">>, <<"U+02CA">>, <<"U+02CB">>, <<"U+02CC">>, <<"U+02CD">>,
     <<"U+02CE">>, <<"U+02CF">>, <<"U+02D0">>, <<"U+02D1">>, <<"U+02D2">>,
     <<"U+02D3">>, <<"U+02D4">>, <<"U+02D5">>, <<"U+02D6">>, <<"U+02D7">>,
     <<"U+02D8">>, <<"U+02D9">>, <<"U+02DA">>, <<"U+02DB">>, <<"U+02DC">>,
     <<"U+02DD">>, <<"U+02DE">>, <<"U+02DF">>, <<"U+02E0">>, <<"U+02E1">>,
     <<"U+02E2">>, <<"U+02E3">>, <<"U+02E4">>, <<"U+02E5">>, <<"U+02E6">>,
     <<"U+02E7">>, <<"U+02E8">>, <<"U+02E9">>, <<"U+02EA">>, <<"U+02EB">>,
     <<"U+02EC">>, <<"U+02ED">>, <<"U+02EE">>, <<"U+02EF">>, <<"U+02F0">>,
     <<"U+02F1">>, <<"U+02F2">>, <<"U+02F3">>, <<"U+02F4">>, <<"U+02F5">>,
     <<"U+02F6">>, <<"U+02F7">>, <<"U+02F8">>, <<"U+02F9">>, <<"U+02FA">>,
     <<"U+02FB">>, <<"U+02FC">>, <<"U+02FD">>, <<"U+02FE">>, <<"U+02FF">>,
     <<"U+0300">>, <<"U+0301">>, <<"U+0302">>, <<"U+0303">>, <<"U+0304">>,
     <<"U+0305">>, <<"U+0306">>, <<"U+0307">>, <<"U+0308">>, <<"U+0309">>,
     <<"U+030A">>, <<"U+030B">>, <<"U+030C">>, <<"U+030D">>, <<"U+030E">>,
     <<"U+030F">>, <<"U+0310">>, <<"U+0311">>, <<"U+0312">>, <<"U+0313">>,
     <<"U+0314">>, <<"U+0315">>, <<"U+0316">>, <<"U+0317">>, <<"U+0318">>,
     <<"U+0319">>, <<"U+031A">>, <<"U+031B">>, <<"U+031C">>, <<"U+031D">>,
     <<"U+031E">>, <<"U+031F">>, <<"U+0320">>, <<"U+0321">>, <<"U+0322">>,
     <<"U+0323">>, <<"U+0324">>, <<"U+0325">>, <<"U+0326">>, <<"U+0327">>,
     <<"U+0328">>, <<"U+0329">>, <<"U+032A">>, <<"U+032B">>, <<"U+032C">>,
     <<"U+032D">>, <<"U+032E">>, <<"U+032F">>, <<"U+0330">>, <<"U+0331">>,
     <<"U+0332">>, <<"U+0333">>, <<"U+0334">>, <<"U+0335">>, <<"U+0336">>,
     <<"U+0337">>, <<"U+0338">>, <<"U+0339">>, <<"U+033A">>, <<"U+033B">>,
     <<"U+033C">>, <<"U+033D">>, <<"U+033E">>, <<"U+033F">>, <<"U+0340">>,
     <<"U+0341">>, <<"U+0342">>, <<"U+0343">>, <<"U+0344">>, <<"U+0345">>,
     <<"U+0346">>, <<"U+0347">>, <<"U+0348">>, <<"U+0349">>, <<"U+034A">>,
     <<"U+034B">>, <<"U+034C">>, <<"U+034D">>, <<"U+034E">>, <<"U+034F">>,
     <<"U+0350">>, <<"U+0351">>, <<"U+0352">>, <<"U+0353">>, <<"U+0354">>,
     <<"U+0355">>, <<"U+0356">>, <<"U+0357">>, <<"U+0358">>, <<"U+0359">>,
     <<"U+035A">>, <<"U+035B">>, <<"U+035C">>, <<"U+035D">>, <<"U+035E">>,
     <<"U+035F">>, <<"U+0360">>, <<"U+0361">>, <<"U+0362">>, <<"U+0363">>,
     <<"U+0364">>, <<"U+0365">>, <<"U+0366">>, <<"U+0367">>, <<"U+0368">>,
     <<"U+0369">>, <<"U+036A">>, <<"U+036B">>, <<"U+036C">>, <<"U+036D">>,
     <<"U+036E">>, <<"U+036F">>, <<"U+0374">>, <<"U+0375">>, <<"U+037A">>,
     <<"U+0384">>, <<"U+0385">>, <<"U+0387">>, <<"U+0483">>, <<"U+0484">>,
     <<"U+0485">>, <<"U+0486">>, <<"U+0487">>, <<"U+0488">>, <<"U+0489">>,
     <<"U+0559">>, <<"U+055F">>, <<"U+0591">>, <<"U+0592">>, <<"U+0593">>,
     <<"U+0594">>, <<"U+0595">>, <<"U+0596">>, <<"U+0597">>, <<"U+0598">>,
     <<"U+0599">>, <<"U+059A">>, <<"U+059B">>, <<"U+059C">>, <<"U+059D">>,
     <<"U+059E">>, <<"U+059F">>, <<"U+05A0">>, <<"U+05A1">>, <<"U+05A2">>,
     <<"U+05A3">>, <<"U+05A4">>, <<"U+05A5">>, <<"U+05A6">>, <<"U+05A7">>,
     <<"U+05A8">>, <<"U+05A9">>, <<"U+05AA">>, <<"U+05AB">>, <<"U+05AC">>,
     <<"U+05AD">>, <<"U+05AE">>, <<"U+05AF">>, <<"U+05B0">>, <<"U+05B1">>,
     <<"U+05B2">>, <<"U+05B3">>, <<"U+05B4">>, <<"U+05B5">>, <<"U+05B6">>,
     <<"U+05B7">>, <<"U+05B8">>, <<"U+05B9">>, <<"U+05BA">>, <<"U+05BB">>,
     <<"U+05BC">>, <<"U+05BD">>, <<"U+05BF">>, <<"U+05C1">>, <<"U+05C2">>,
     <<"U+05C4">>, <<"U+05C5">>, <<"U+05C7">>, <<"U+05F4">>, <<"U+0600">>,
     <<"U+0601">>, <<"U+0602">>, <<"U+0603">>, <<"U+0604">>, <<"U+0605">>,
     <<"U+0610">>, <<"U+0611">>, <<"U+0612">>, <<"U+0613">>, <<"U+0614">>,
     <<"U+0615">>, <<"U+0616">>, <<"U+0617">>, <<"U+0618">>, <<"U+0619">>,
     <<"U+061A">>, <<"U+061C">>, <<"U+0640">>, <<"U+064B">>, <<"U+064C">>,
     <<"U+064D">>, <<"U+064E">>, <<"U+064F">>, <<"U+0650">>, <<"U+0651">>,
     <<"U+0652">>, <<"U+0653">>, <<"U+0654">>, <<"U+0655">>, <<"U+0656">>,
     <<"U+0657">>, <<"U+0658">>, <<"U+0659">>, <<"U+065A">>, <<"U+065B">>,
     <<"U+065C">>, <<"U+065D">>, <<"U+065E">>, <<"U+065F">>, <<"U+0670">>,
     <<"U+06D6">>, <<"U+06D7">>, <<"U+06D8">>, <<"U+06D9">>, <<"U+06DA">>,
     <<"U+06DB">>, <<"U+06DC">>, <<"U+06DD">>, <<"U+06DF">>, <<"U+06E0">>,
     <<"U+06E1">>, <<"U+06E2">>, <<"U+06E3">>, <<"U+06E4">>, <<"U+06E5">>,
     <<"U+06E6">>, <<"U+06E7">>, <<"U+06E8">>, <<"U+06EA">>, <<"U+06EB">>,
     <<"U+06EC">>, <<"U+06ED">>, <<"U+070F">>, <<"U+0711">>, <<"U+0730">>,
     <<"U+0731">>, <<"U+0732">>, <<"U+0733">>, <<"U+0734">>, <<"U+0735">>,
     <<"U+0736">>, <<"U+0737">>, <<"U+0738">>, <<"U+0739">>, <<"U+073A">>,
     <<"U+073B">>, <<"U+073C">>, <<"U+073D">>, <<"U+073E">>, <<"U+073F">>,
     <<"U+0740">>, <<"U+0741">>, <<"U+0742">>, <<"U+0743">>, <<"U+0744">>,
     <<"U+0745">>, <<"U+0746">>, <<"U+0747">>, <<"U+0748">>, <<"U+0749">>,
     <<"U+074A">>, <<"U+07A6">>, <<"U+07A7">>, <<"U+07A8">>, <<"U+07A9">>,
     <<"U+07AA">>, <<"U+07AB">>, <<"U+07AC">>, <<"U+07AD">>, <<"U+07AE">>,
     <<"U+07AF">>, <<"U+07B0">>, <<"U+07EB">>, <<"U+07EC">>, <<"U+07ED">>,
     <<"U+07EE">>, <<"U+07EF">>, <<"U+07F0">>, <<"U+07F1">>, <<"U+07F2">>,
     <<"U+07F3">>, <<"U+07F4">>, <<"U+07F5">>, <<"U+07FA">>, <<"U+07FD">>,
     <<"U+0816">>, <<"U+0817">>, <<"U+0818">>, <<"U+0819">>, <<"U+081A">>,
     <<"U+081B">>, <<"U+081C">>, <<"U+081D">>, <<"U+081E">>, <<"U+081F">>,
     <<"U+0820">>, <<"U+0821">>, <<"U+0822">>, <<"U+0823">>, <<"U+0824">>,
     <<"U+0825">>, <<"U+0826">>, <<"U+0827">>, <<"U+0828">>, <<"U+0829">>,
     <<"U+082A">>, <<"U+082B">>, <<"U+082C">>, <<"U+082D">>, <<"U+0859">>,
     <<"U+085A">>, <<"U+085B">>, <<"U+0888">>, <<"U+0890">>, <<"U+0891">>,
     <<"U+0897">>, <<"U+0898">>, <<"U+0899">>, <<"U+089A">>, <<"U+089B">>,
     <<"U+089C">>, <<"U+089D">>, <<"U+089E">>, <<"U+089F">>, <<"U+08C9">>,
     <<"U+08CA">>, <<"U+08CB">>, <<"U+08CC">>, <<"U+08CD">>, <<"U+08CE">>,
     <<"U+08CF">>, <<"U+08D0">>, <<"U+08D1">>, <<"U+08D2">>, <<"U+08D3">>,
     <<"U+08D4">>, <<"U+08D5">>, <<"U+08D6">>, <<"U+08D7">>, <<"U+08D8">>,
     <<"U+08D9">>, <<"U+08DA">>, <<"U+08DB">>, <<"U+08DC">>, <<"U+08DD">>,
     <<"U+08DE">>, <<"U+08DF">>, <<"U+08E0">>, <<"U+08E1">>, <<"U+08E2">>,
     <<"U+08E3">>, <<"U+08E4">>, <<"U+08E5">>, <<"U+08E6">>, <<"U+08E7">>,
     <<"U+08E8">>, <<"U+08E9">>, <<"U+08EA">>, <<"U+08EB">>, <<"U+08EC">>,
     <<"U+08ED">>, <<"U+08EE">>, <<"U+08EF">>, <<"U+08F0">>, <<"U+08F1">>,
     <<"U+08F2">>, <<"U+08F3">>, <<"U+08F4">>, <<"U+08F5">>, <<"U+08F6">>,
     <<"U+08F7">>, <<"U+08F8">>, <<"U+08F9">>, <<"U+08FA">>, <<"U+08FB">>,
     <<"U+08FC">>, <<"U+08FD">>, <<"U+08FE">>, <<"U+08FF">>, <<"U+0900">>,
     <<"U+0901">>, <<"U+0902">>, <<"U+093A">>, <<"U+093C">>, <<"U+0941">>,
     <<"U+0942">>, <<"U+0943">>, <<"U+0944">>, <<"U+0945">>, <<"U+0946">>,
     <<"U+0947">>, <<"U+0948">>, <<"U+094D">>, <<"U+0951">>, <<"U+0952">>,
     <<"U+0953">>, <<"U+0954">>, <<"U+0955">>, <<"U+0956">>, <<"U+0957">>,
     <<"U+0962">>, <<"U+0963">>, <<"U+0971">>, <<"U+0981">>, <<"U+09BC">>,
     <<"U+09C1">>, <<"U+09C2">>, <<"U+09C3">>, <<"U+09C4">>, <<"U+09CD">>,
     <<"U+09E2">>, <<"U+09E3">>, <<"U+09FE">>, <<"U+0A01">>, <<"U+0A02">>,
     <<"U+0A3C">>, <<"U+0A41">>, <<"U+0A42">>, <<"U+0A47">>, <<"U+0A48">>,
     <<"U+0A4B">>, <<"U+0A4C">>, <<"U+0A4D">>, <<"U+0A51">>, <<"U+0A70">>,
     <<"U+0A71">>, <<"U+0A75">>, <<"U+0A81">>, <<"U+0A82">>, <<"U+0ABC">>,
     <<"U+0AC1">>, <<"U+0AC2">>, <<"U+0AC3">>, <<"U+0AC4">>, <<"U+0AC5">>,
     <<"U+0AC7">>, <<"U+0AC8">>, <<"U+0ACD">>, <<"U+0AE2">>, <<"U+0AE3">>,
     <<"U+0AFA">>, <<"U+0AFB">>, <<"U+0AFC">>, <<"U+0AFD">>, <<"U+0AFE">>,
     <<"U+0AFF">>, <<"U+0B01">>, <<"U+0B3C">>, <<"U+0B3F">>, <<"U+0B41">>,
     <<"U+0B42">>, <<"U+0B43">>, <<"U+0B44">>, <<"U+0B4D">>, <<"U+0B55">>,
     <<"U+0B56">>, <<"U+0B62">>, <<"U+0B63">>, <<"U+0B82">>, <<"U+0BC0">>,
     <<"U+0BCD">>, <<"U+0C00">>, <<"U+0C04">>, <<"U+0C3C">>, <<"U+0C3E">>,
     <<"U+0C3F">>, <<"U+0C40">>, <<"U+0C46">>, <<"U+0C47">>, <<"U+0C48">>,
     <<"U+0C4A">>, <<"U+0C4B">>, <<"U+0C4C">>, <<"U+0C4D">>, <<"U+0C55">>,
     <<"U+0C56">>, <<"U+0C62">>, <<"U+0C63">>, <<"U+0C81">>, <<"U+0CBC">>,
     <<"U+0CBF">>, <<"U+0CC6">>, <<"U+0CCC">>, <<"U+0CCD">>, <<"U+0CE2">>,
     <<"U+0CE3">>, <<"U+0D00">>, <<"U+0D01">>, <<"U+0D3B">>, <<"U+0D3C">>,
     <<"U+0D41">>, <<"U+0D42">>, <<"U+0D43">>, <<"U+0D44">>, <<"U+0D4D">>,
     <<"U+0D62">>, <<"U+0D63">>, <<"U+0D81">>, <<"U+0DCA">>, <<"U+0DD2">>,
     <<"U+0DD3">>, <<"U+0DD4">>, <<"U+0DD6">>, <<"U+0E31">>, <<"U+0E34">>,
     <<"U+0E35">>, <<"U+0E36">>, <<"U+0E37">>, <<"U+0E38">>, <<"U+0E39">>,
     <<"U+0E3A">>, <<"U+0E46">>, <<"U+0E47">>, <<"U+0E48">>, <<"U+0E49">>,
     <<"U+0E4A">>, <<"U+0E4B">>, <<"U+0E4C">>, <<"U+0E4D">>, <<"U+0E4E">>,
     <<"U+0EB1">>, <<"U+0EB4">>, <<"U+0EB5">>, <<"U+0EB6">>, <<"U+0EB7">>,
     <<"U+0EB8">>, <<"U+0EB9">>, <<"U+0EBA">>, <<"U+0EBB">>, <<"U+0EBC">>,
     <<"U+0EC6">>, <<"U+0EC8">>, <<"U+0EC9">>, <<"U+0ECA">>, <<"U+0ECB">>,
     <<"U+0ECC">>, <<"U+0ECD">>, <<"U+0ECE">>, <<"U+0F18">>, <<"U+0F19">>,
     <<"U+0F35">>, <<"U+0F37">>, <<"U+0F39">>, <<"U+0F71">>, <<"U+0F72">>,
     <<"U+0F73">>, <<"U+0F74">>, <<"U+0F75">>, <<"U+0F76">>, <<"U+0F77">>,
     <<"U+0F78">>, <<"U+0F79">>, <<"U+0F7A">>, <<"U+0F7B">>, <<"U+0F7C">>,
     <<"U+0F7D">>, <<"U+0F7E">>, <<"U+0F80">>, <<"U+0F81">>, <<"U+0F82">>,
     <<"U+0F83">>, <<"U+0F84">>, <<"U+0F86">>, <<"U+0F87">>, <<"U+0F8D">>,
     <<"U+0F8E">>, <<"U+0F8F">>, <<"U+0F90">>, <<"U+0F91">>, <<"U+0F92">>,
     <<"U+0F93">>, <<"U+0F94">>, <<"U+0F95">>, <<"U+0F96">>, <<"U+0F97">>,
     <<"U+0F99">>, <<"U+0F9A">>, <<"U+0F9B">>, <<"U+0F9C">>, <<"U+0F9D">>,
     <<"U+0F9E">>, <<"U+0F9F">>, <<"U+0FA0">>, <<"U+0FA1">>, <<"U+0FA2">>,
     <<"U+0FA3">>, <<"U+0FA4">>, <<"U+0FA5">>, <<"U+0FA6">>, <<"U+0FA7">>,
     <<"U+0FA8">>, <<"U+0FA9">>, <<"U+0FAA">>, <<"U+0FAB">>, <<"U+0FAC">>,
     <<"U+0FAD">>, <<"U+0FAE">>, <<"U+0FAF">>, <<"U+0FB0">>, <<"U+0FB1">>,
     <<"U+0FB2">>, <<"U+0FB3">>, <<"U+0FB4">>, <<"U+0FB5">>, <<"U+0FB6">>,
     <<"U+0FB7">>, <<"U+0FB8">>, <<"U+0FB9">>, <<"U+0FBA">>, <<"U+0FBB">>,
     <<"U+0FBC">>, <<"U+0FC6">>, <<"U+102D">>, <<"U+102E">>, <<"U+102F">>,
     <<"U+1030">>, <<"U+1032">>, <<"U+1033">>, <<"U+1034">>, <<"U+1035">>,
     <<"U+1036">>, <<"U+1037">>, <<"U+1039">>, <<"U+103A">>, <<"U+103D">>,
     <<"U+103E">>, <<"U+1058">>, <<"U+1059">>, <<"U+105E">>, <<"U+105F">>,
     <<"U+1060">>, <<"U+1071">>, <<"U+1072">>, <<"U+1073">>, <<"U+1074">>,
     <<"U+1082">>, <<"U+1085">>, <<"U+1086">>, <<"U+108D">>, <<"U+109D">>,
     <<"U+10FC">>, <<"U+135D">>, <<"U+135E">>, <<"U+135F">>, <<"U+1712">>,
     <<"U+1713">>, <<"U+1714">>, <<"U+1732">>, <<"U+1733">>, <<"U+1752">>,
     <<"U+1753">>, <<"U+1772">>, <<"U+1773">>, <<"U+17B4">>, <<"U+17B5">>,
     <<"U+17B7">>, <<"U+17B8">>, <<"U+17B9">>, <<"U+17BA">>, <<"U+17BB">>,
     <<"U+17BC">>, <<"U+17BD">>, <<"U+17C6">>, <<"U+17C9">>, <<"U+17CA">>,
     <<"U+17CB">>, <<"U+17CC">>, <<"U+17CD">>, <<"U+17CE">>, <<"U+17CF">>,
     <<"U+17D0">>, <<"U+17D1">>, <<"U+17D2">>, <<"U+17D3">>, <<"U+17D7">>,
     <<"U+17DD">>, <<"U+180B">>, <<"U+180C">>, <<"U+180D">>, <<"U+180E">>,
     <<"U+180F">>, <<"U+1843">>, <<"U+1885">>, <<"U+1886">>, <<"U+18A9">>,
     <<"U+1920">>, <<"U+1921">>, <<"U+1922">>, <<"U+1927">>, <<"U+1928">>,
     <<"U+1932">>, <<"U+1939">>, <<"U+193A">>, <<"U+193B">>, <<"U+1A17">>,
     <<"U+1A18">>, <<"U+1A1B">>, <<"U+1A56">>, <<"U+1A58">>, <<"U+1A59">>,
     <<"U+1A5A">>, <<"U+1A5B">>, <<"U+1A5C">>, <<"U+1A5D">>, <<"U+1A5E">>,
     <<"U+1A60">>, <<"U+1A62">>, <<"U+1A65">>, <<"U+1A66">>, <<"U+1A67">>,
     <<"U+1A68">>, <<"U+1A69">>, <<"U+1A6A">>, <<"U+1A6B">>, <<"U+1A6C">>,
     <<"U+1A73">>, <<"U+1A74">>, <<"U+1A75">>, <<"U+1A76">>, <<"U+1A77">>,
     <<"U+1A78">>, <<"U+1A79">>, <<"U+1A7A">>, <<"U+1A7B">>, <<"U+1A7C">>,
     <<"U+1A7F">>, <<"U+1AA7">>, <<"U+1AB0">>, <<"U+1AB1">>, <<"U+1AB2">>,
     <<"U+1AB3">>, <<"U+1AB4">>, <<"U+1AB5">>, <<"U+1AB6">>, <<"U+1AB7">>,
     <<"U+1AB8">>, <<"U+1AB9">>, <<"U+1ABA">>, <<"U+1ABB">>, <<"U+1ABC">>,
     <<"U+1ABD">>, <<"U+1ABE">>, <<"U+1ABF">>, <<"U+1AC0">>, <<"U+1AC1">>,
     <<"U+1AC2">>, <<"U+1AC3">>, <<"U+1AC4">>, <<"U+1AC5">>, <<"U+1AC6">>,
     <<"U+1AC7">>, <<"U+1AC8">>, <<"U+1AC9">>, <<"U+1ACA">>, <<"U+1ACB">>,
     <<"U+1ACC">>, <<"U+1ACD">>, <<"U+1ACE">>, <<"U+1ACF">>, <<"U+1AD0">>,
     <<"U+1AD1">>, <<"U+1AD2">>, <<"U+1AD3">>, <<"U+1AD4">>, <<"U+1AD5">>,
     <<"U+1AD6">>, <<"U+1AD7">>, <<"U+1AD8">>, <<"U+1AD9">>, <<"U+1ADA">>,
     <<"U+1ADB">>, <<"U+1ADC">>, <<"U+1ADD">>, <<"U+1AE0">>, <<"U+1AE1">>,
     <<"U+1AE2">>, <<"U+1AE3">>, <<"U+1AE4">>, <<"U+1AE5">>, <<"U+1AE6">>,
     <<"U+1AE7">>, <<"U+1AE8">>, <<"U+1AE9">>, <<"U+1AEA">>, <<"U+1AEB">>,
     <<"U+1B00">>, <<"U+1B01">>, <<"U+1B02">>, <<"U+1B03">>, <<"U+1B34">>,
     <<"U+1B36">>, <<"U+1B37">>, <<"U+1B38">>, <<"U+1B39">>, <<"U+1B3A">>,
     <<"U+1B3C">>, <<"U+1B42">>, <<"U+1B6B">>, <<"U+1B6C">>, <<"U+1B6D">>,
     <<"U+1B6E">>, <<"U+1B6F">>, <<"U+1B70">>, <<"U+1B71">>, <<"U+1B72">>,
     <<"U+1B73">>, <<"U+1B80">>, <<"U+1B81">>, <<"U+1BA2">>, <<"U+1BA3">>,
     <<"U+1BA4">>, <<"U+1BA5">>, <<"U+1BA8">>, <<"U+1BA9">>, <<"U+1BAB">>,
     <<"U+1BAC">>, <<"U+1BAD">>, <<"U+1BE6">>, <<"U+1BE8">>, <<"U+1BE9">>,
     <<"U+1BED">>, <<"U+1BEF">>, <<"U+1BF0">>, <<"U+1BF1">>, <<"U+1C2C">>,
     <<"U+1C2D">>, <<"U+1C2E">>, <<"U+1C2F">>, <<"U+1C30">>, <<"U+1C31">>,
     <<"U+1C32">>, <<"U+1C33">>, <<"U+1C36">>, <<"U+1C37">>, <<"U+1C78">>,
     <<"U+1C79">>, <<"U+1C7A">>, <<"U+1C7B">>, <<"U+1C7C">>, <<"U+1C7D">>,
     <<"U+1CD0">>, <<"U+1CD1">>, <<"U+1CD2">>, <<"U+1CD4">>, <<"U+1CD5">>,
     <<"U+1CD6">>, <<"U+1CD7">>, <<"U+1CD8">>, <<"U+1CD9">>, <<"U+1CDA">>,
     <<"U+1CDB">>, <<"U+1CDC">>, <<"U+1CDD">>, <<"U+1CDE">>, <<"U+1CDF">>,
     <<"U+1CE0">>, <<"U+1CE2">>, <<"U+1CE3">>, <<"U+1CE4">>, <<"U+1CE5">>,
     <<"U+1CE6">>, <<"U+1CE7">>, <<"U+1CE8">>, <<"U+1CED">>, <<"U+1CF4">>,
     <<"U+1CF8">>, <<"U+1CF9">>, <<"U+1D2C">>, <<"U+1D2D">>, <<"U+1D2E">>,
     <<"U+1D2F">>, <<"U+1D30">>, <<"U+1D31">>, <<"U+1D32">>, <<"U+1D33">>,
     <<"U+1D34">>, <<"U+1D35">>, <<"U+1D36">>, <<"U+1D37">>, <<"U+1D38">>,
     <<"U+1D39">>, <<"U+1D3A">>, <<"U+1D3B">>, <<"U+1D3C">>, <<"U+1D3D">>,
     <<"U+1D3E">>, <<"U+1D3F">>, <<"U+1D40">>, <<"U+1D41">>, <<"U+1D42">>,
     <<"U+1D43">>, <<"U+1D44">>, <<"U+1D45">>, <<"U+1D46">>, <<"U+1D47">>,
     <<"U+1D48">>, <<"U+1D49">>, <<"U+1D4A">>, <<"U+1D4B">>, <<"U+1D4C">>,
     <<"U+1D4D">>, <<"U+1D4E">>, <<"U+1D4F">>, <<"U+1D50">>, <<"U+1D51">>,
     <<"U+1D52">>, <<"U+1D53">>, <<"U+1D54">>, <<"U+1D55">>, <<"U+1D56">>,
     <<"U+1D57">>, <<"U+1D58">>, <<"U+1D59">>, <<"U+1D5A">>, <<"U+1D5B">>,
     <<"U+1D5C">>, <<"U+1D5D">>, <<"U+1D5E">>, <<"U+1D5F">>, <<"U+1D60">>,
     <<"U+1D61">>, <<"U+1D62">>, <<"U+1D63">>, <<"U+1D64">>, <<"U+1D65">>,
     <<"U+1D66">>, <<"U+1D67">>, <<"U+1D68">>, <<"U+1D69">>, <<"U+1D6A">>,
     <<"U+1D78">>, <<"U+1D9B">>, <<"U+1D9C">>, <<"U+1D9D">>, <<"U+1D9E">>,
     <<"U+1D9F">>, <<"U+1DA0">>, <<"U+1DA1">>, <<"U+1DA2">>, <<"U+1DA3">>,
     <<"U+1DA4">>, <<"U+1DA5">>, <<"U+1DA6">>, <<"U+1DA7">>, <<"U+1DA8">>,
     <<"U+1DA9">>, <<"U+1DAA">>, <<"U+1DAB">>, <<"U+1DAC">>, <<"U+1DAD">>,
     <<"U+1DAE">>, <<"U+1DAF">>, <<"U+1DB0">>, <<"U+1DB1">>, <<"U+1DB2">>,
     <<"U+1DB3">>, <<"U+1DB4">>, <<"U+1DB5">>, <<"U+1DB6">>, <<"U+1DB7">>,
     <<"U+1DB8">>, <<"U+1DB9">>, <<"U+1DBA">>, <<"U+1DBB">>, <<"U+1DBC">>,
     <<"U+1DBD">>, <<"U+1DBE">>, <<"U+1DBF">>, <<"U+1DC0">>, <<"U+1DC1">>,
     <<"U+1DC2">>, <<"U+1DC3">>, <<"U+1DC4">>, <<"U+1DC5">>, <<"U+1DC6">>,
     <<"U+1DC7">>, <<"U+1DC8">>, <<"U+1DC9">>, <<"U+1DCA">>, <<"U+1DCB">>,
     <<"U+1DCC">>, <<"U+1DCD">>, <<"U+1DCE">>, <<"U+1DCF">>, <<"U+1DD0">>,
     <<"U+1DD1">>, <<"U+1DD2">>, <<"U+1DD3">>, <<"U+1DD4">>, <<"U+1DD5">>,
     <<"U+1DD6">>, <<"U+1DD7">>, <<"U+1DD8">>, <<"U+1DD9">>, <<"U+1DDA">>,
     <<"U+1DDB">>, <<"U+1DDC">>, <<"U+1DDD">>, <<"U+1DDE">>, <<"U+1DDF">>,
     <<"U+1DE0">>, <<"U+1DE1">>, <<"U+1DE2">>, <<"U+1DE3">>, <<"U+1DE4">>,
     <<"U+1DE5">>, <<"U+1DE6">>, <<"U+1DE7">>, <<"U+1DE8">>, <<"U+1DE9">>,
     <<"U+1DEA">>, <<"U+1DEB">>, <<"U+1DEC">>, <<"U+1DED">>, <<"U+1DEE">>,
     <<"U+1DEF">>, <<"U+1DF0">>, <<"U+1DF1">>, <<"U+1DF2">>, <<"U+1DF3">>,
     <<"U+1DF4">>, <<"U+1DF5">>, <<"U+1DF6">>, <<"U+1DF7">>, <<"U+1DF8">>,
     <<"U+1DF9">>, <<"U+1DFA">>, <<"U+1DFB">>, <<"U+1DFC">>, <<"U+1DFD">>,
     <<"U+1DFE">>, <<"U+1DFF">>, <<"U+1FBD">>, <<"U+1FBF">>, <<"U+1FC0">>,
     <<"U+1FC1">>, <<"U+1FCD">>, <<"U+1FCE">>, <<"U+1FCF">>, <<"U+1FDD">>,
     <<"U+1FDE">>, <<"U+1FDF">>, <<"U+1FED">>, <<"U+1FEE">>, <<"U+1FEF">>,
     <<"U+1FFD">>, <<"U+1FFE">>, <<"U+200B">>, <<"U+200C">>, <<"U+200D">>,
     <<"U+200E">>, <<"U+200F">>, <<"U+2018">>, <<"U+2019">>, <<"U+2024">>,
     <<"U+2027">>, <<"U+202A">>, <<"U+202B">>, <<"U+202C">>, <<"U+202D">>,
     <<"U+202E">>, <<"U+2060">>, <<"U+2061">>, <<"U+2062">>, <<"U+2063">>,
     <<"U+2064">>, <<"U+2066">>, <<"U+2067">>, <<"U+2068">>, <<"U+2069">>,
     <<"U+206A">>, <<"U+206B">>, <<"U+206C">>, <<"U+206D">>, <<"U+206E">>,
     <<"U+206F">>, <<"U+2071">>, <<"U+207F">>, <<"U+2090">>, <<"U+2091">>,
     <<"U+2092">>, <<"U+2093">>, <<"U+2094">>, <<"U+2095">>, <<"U+2096">>,
     <<"U+2097">>, <<"U+2098">>, <<"U+2099">>, <<"U+209A">>, <<"U+209B">>,
     <<"U+209C">>, <<"U+20D0">>, <<"U+20D1">>, <<"U+20D2">>, <<"U+20D3">>,
     <<"U+20D4">>, <<"U+20D5">>, <<"U+20D6">>, <<"U+20D7">>, <<"U+20D8">>,
     <<"U+20D9">>, <<"U+20DA">>, <<"U+20DB">>, <<"U+20DC">>, <<"U+20DD">>,
     <<"U+20DE">>, <<"U+20DF">>, <<"U+20E0">>, <<"U+20E1">>, <<"U+20E2">>,
     <<"U+20E3">>, <<"U+20E4">>, <<"U+20E5">>, <<"U+20E6">>, <<"U+20E7">>,
     <<"U+20E8">>, <<"U+20E9">>, <<"U+20EA">>, <<"U+20EB">>, <<"U+20EC">>,
     <<"U+20ED">>, <<"U+20EE">>, <<"U+20EF">>, <<"U+20F0">>, <<"U+2C7C">>,
     <<"U+2C7D">>, <<"U+2CEF">>, <<"U+2CF0">>, <<"U+2CF1">>, <<"U+2D6F">>,
     <<"U+2D7F">>, <<"U+2DE0">>, <<"U+2DE1">>, <<"U+2DE2">>, <<"U+2DE3">>,
     <<"U+2DE4">>, <<"U+2DE5">>, <<"U+2DE6">>, <<"U+2DE7">>, <<"U+2DE8">>,
     <<"U+2DE9">>, <<"U+2DEA">>, <<"U+2DEB">>, <<"U+2DEC">>, <<"U+2DED">>,
     <<"U+2DEE">>, <<"U+2DEF">>, <<"U+2DF0">>, <<"U+2DF1">>, <<"U+2DF2">>,
     <<"U+2DF3">>, <<"U+2DF4">>, <<"U+2DF5">>, <<"U+2DF6">>, <<"U+2DF7">>,
     <<"U+2DF8">>, <<"U+2DF9">>, <<"U+2DFA">>, <<"U+2DFB">>, <<"U+2DFC">>,
     <<"U+2DFD">>, <<"U+2DFE">>, <<"U+2DFF">>, <<"U+2E2F">>, <<"U+3005">>,
     <<"U+302A">>, <<"U+302B">>, <<"U+302C">>, <<"U+302D">>, <<"U+3031">>,
     <<"U+3032">>, <<"U+3033">>, <<"U+3034">>, <<"U+3035">>, <<"U+303B">>,
     <<"U+3099">>, <<"U+309A">>, <<"U+309B">>, <<"U+309C">>, <<"U+309D">>,
     <<"U+309E">>, <<"U+30FC">>, <<"U+30FD">>, <<"U+30FE">>, <<"U+A015">>,
     <<"U+A4F8">>, <<"U+A4F9">>, <<"U+A4FA">>, <<"U+A4FB">>, <<"U+A4FC">>,
     <<"U+A4FD">>, <<"U+A60C">>, <<"U+A66F">>, <<"U+A670">>, <<"U+A671">>,
     <<"U+A672">>, <<"U+A674">>, <<"U+A675">>, <<"U+A676">>, <<"U+A677">>,
     <<"U+A678">>, <<"U+A679">>, <<"U+A67A">>, <<"U+A67B">>, <<"U+A67C">>,
     <<"U+A67D">>, <<"U+A67F">>, <<"U+A69C">>, <<"U+A69D">>, <<"U+A69E">>,
     <<"U+A69F">>, <<"U+A6F0">>, <<"U+A6F1">>, <<"U+A700">>, <<"U+A701">>,
     <<"U+A702">>, <<"U+A703">>, <<"U+A704">>, <<"U+A705">>, <<"U+A706">>,
     <<"U+A707">>, <<"U+A708">>, <<"U+A709">>, <<"U+A70A">>, <<"U+A70B">>,
     <<"U+A70C">>, <<"U+A70D">>, <<"U+A70E">>, <<"U+A70F">>, <<"U+A710">>,
     <<"U+A711">>, <<"U+A712">>, <<"U+A713">>, <<"U+A714">>, <<"U+A715">>,
     <<"U+A716">>, <<"U+A717">>, <<"U+A718">>, <<"U+A719">>, <<"U+A71A">>,
     <<"U+A71B">>, <<"U+A71C">>, <<"U+A71D">>, <<"U+A71E">>, <<"U+A71F">>,
     <<"U+A720">>, <<"U+A721">>, <<"U+A770">>, <<"U+A788">>, <<"U+A789">>,
     <<"U+A78A">>, <<"U+A7F1">>, <<"U+A7F2">>, <<"U+A7F3">>, <<"U+A7F4">>,
     <<"U+A7F8">>, <<"U+A7F9">>, <<"U+A802">>, <<"U+A806">>, <<"U+A80B">>,
     <<"U+A825">>, <<"U+A826">>, <<"U+A82C">>, <<"U+A8C4">>, <<"U+A8C5">>,
     <<"U+A8E0">>, <<"U+A8E1">>, <<"U+A8E2">>, <<"U+A8E3">>, <<"U+A8E4">>,
     <<"U+A8E5">>, <<"U+A8E6">>, <<"U+A8E7">>, <<"U+A8E8">>, <<"U+A8E9">>,
     <<"U+A8EA">>, <<"U+A8EB">>, <<"U+A8EC">>, <<"U+A8ED">>, <<"U+A8EE">>,
     <<"U+A8EF">>, <<"U+A8F0">>, <<"U+A8F1">>, <<"U+A8FF">>, <<"U+A926">>,
     <<"U+A927">>, <<"U+A928">>, <<"U+A929">>, <<"U+A92A">>, <<"U+A92B">>,
     <<"U+A92C">>, <<"U+A92D">>, <<"U+A947">>, <<"U+A948">>, <<"U+A949">>,
     <<"U+A94A">>, <<"U+A94B">>, <<"U+A94C">>, <<"U+A94D">>, <<"U+A94E">>,
     <<"U+A94F">>, <<"U+A950">>, <<"U+A951">>, <<"U+A980">>, <<"U+A981">>,
     <<"U+A982">>, <<"U+A9B3">>, <<"U+A9B6">>, <<"U+A9B7">>, <<"U+A9B8">>,
     <<"U+A9B9">>, <<"U+A9BC">>, <<"U+A9BD">>, <<"U+A9CF">>, <<"U+A9E5">>,
     <<"U+A9E6">>, <<"U+AA29">>, <<"U+AA2A">>, <<"U+AA2B">>, <<"U+AA2C">>,
     <<"U+AA2D">>, <<"U+AA2E">>, <<"U+AA31">>, <<"U+AA32">>, <<"U+AA35">>,
     <<"U+AA36">>, <<"U+AA43">>, <<"U+AA4C">>, <<"U+AA70">>, <<"U+AA7C">>,
     <<"U+AAB0">>, <<"U+AAB2">>, <<"U+AAB3">>, <<"U+AAB4">>, <<"U+AAB7">>,
     <<"U+AAB8">>, <<"U+AABE">>, <<"U+AABF">>, <<"U+AAC1">>, <<"U+AADD">>,
     <<"U+AAEC">>, <<"U+AAED">>, <<"U+AAF3">>, <<"U+AAF4">>, <<"U+AAF6">>,
     <<"U+AB5B">>, <<"U+AB5C">>, <<"U+AB5D">>, <<"U+AB5E">>, <<"U+AB5F">>,
     <<"U+AB69">>, <<"U+AB6A">>, <<"U+AB6B">>, <<"U+ABE5">>, <<"U+ABE8">>,
     <<"U+ABED">>, <<"U+FB1E">>, <<"U+FBB2">>, <<"U+FBB3">>, <<"U+FBB4">>,
     <<"U+FBB5">>, <<"U+FBB6">>, <<"U+FBB7">>, <<"U+FBB8">>, <<"U+FBB9">>,
     <<"U+FBBA">>, <<"U+FBBB">>, <<"U+FBBC">>, <<"U+FBBD">>, <<"U+FBBE">>,
     <<"U+FBBF">>, <<"U+FBC0">>, <<"U+FBC1">>, <<"U+FBC2">>, <<"U+FE00">>,
     <<"U+FE01">>, <<"U+FE02">>, <<"U+FE03">>, <<"U+FE04">>, <<"U+FE05">>,
     <<"U+FE06">>, <<"U+FE07">>, <<"U+FE08">>, <<"U+FE09">>, <<"U+FE0A">>,
     <<"U+FE0B">>, <<"U+FE0C">>, <<"U+FE0D">>, <<"U+FE0E">>, <<"U+FE0F">>,
     <<"U+FE13">>, <<"U+FE20">>, <<"U+FE21">>, <<"U+FE22">>, <<"U+FE23">>,
     <<"U+FE24">>, <<"U+FE25">>, <<"U+FE26">>, <<"U+FE27">>, <<"U+FE28">>,
     <<"U+FE29">>, <<"U+FE2A">>, <<"U+FE2B">>, <<"U+FE2C">>, <<"U+FE2D">>,
     <<"U+FE2E">>, <<"U+FE2F">>, <<"U+FE52">>, <<"U+FE55">>, <<"U+FEFF">>,
     <<"U+FF07">>, <<"U+FF0E">>, <<"U+FF1A">>, <<"U+FF3E">>, <<"U+FF40">>,
     <<"U+FF70">>, <<"U+FF9E">>, <<"U+FF9F">>, <<"U+FFE3">>, <<"U+FFF9">>,
     <<"U+FFFA">>, <<"U+FFFB">>, <<"U+D800", "U+DDFD">>,
     <<"U+D800", "U+DEE0">>, <<"U+D800", "U+DF76">>, <<"U+D800", "U+DF77">>,
     <<"U+D800", "U+DF78">>, <<"U+D800", "U+DF79">>, <<"U+D800", "U+DF7A">>,
     <<"U+D801", "U+DF80">>, <<"U+D801", "U+DF81">>, <<"U+D801", "U+DF82">>,
     <<"U+D801", "U+DF83">>, <<"U+D801", "U+DF84">>, <<"U+D801", "U+DF85">>,
     <<"U+D801", "U+DF87">>, <<"U+D801", "U+DF88">>, <<"U+D801", "U+DF89">>,
     <<"U+D801", "U+DF8A">>, <<"U+D801", "U+DF8B">>, <<"U+D801", "U+DF8C">>,
     <<"U+D801", "U+DF8D">>, <<"U+D801", "U+DF8E">>, <<"U+D801", "U+DF8F">>,
     <<"U+D801", "U+DF90">>, <<"U+D801", "U+DF91">>, <<"U+D801", "U+DF92">>,
     <<"U+D801", "U+DF93">>, <<"U+D801", "U+DF94">>, <<"U+D801", "U+DF95">>,
     <<"U+D801", "U+DF96">>, <<"U+D801", "U+DF97">>, <<"U+D801", "U+DF98">>,
     <<"U+D801", "U+DF99">>, <<"U+D801", "U+DF9A">>, <<"U+D801", "U+DF9B">>,
     <<"U+D801", "U+DF9C">>, <<"U+D801", "U+DF9D">>, <<"U+D801", "U+DF9E">>,
     <<"U+D801", "U+DF9F">>, <<"U+D801", "U+DFA0">>, <<"U+D801", "U+DFA1">>,
     <<"U+D801", "U+DFA2">>, <<"U+D801", "U+DFA3">>, <<"U+D801", "U+DFA4">>,
     <<"U+D801", "U+DFA5">>, <<"U+D801", "U+DFA6">>, <<"U+D801", "U+DFA7">>,
     <<"U+D801", "U+DFA8">>, <<"U+D801", "U+DFA9">>, <<"U+D801", "U+DFAA">>,
     <<"U+D801", "U+DFAB">>, <<"U+D801", "U+DFAC">>, <<"U+D801", "U+DFAD">>,
     <<"U+D801", "U+DFAE">>, <<"U+D801", "U+DFAF">>, <<"U+D801", "U+DFB0">>,
     <<"U+D801", "U+DFB2">>, <<"U+D801", "U+DFB3">>, <<"U+D801", "U+DFB4">>,
     <<"U+D801", "U+DFB5">>, <<"U+D801", "U+DFB6">>, <<"U+D801", "U+DFB7">>,
     <<"U+D801", "U+DFB8">>, <<"U+D801", "U+DFB9">>, <<"U+D801", "U+DFBA">>,
     <<"U+D802", "U+DE01">>, <<"U+D802", "U+DE02">>, <<"U+D802", "U+DE03">>,
     <<"U+D802", "U+DE05">>, <<"U+D802", "U+DE06">>, <<"U+D802", "U+DE0C">>,
     <<"U+D802", "U+DE0D">>, <<"U+D802", "U+DE0E">>, <<"U+D802", "U+DE0F">>,
     <<"U+D802", "U+DE38">>, <<"U+D802", "U+DE39">>, <<"U+D802", "U+DE3A">>,
     <<"U+D802", "U+DE3F">>, <<"U+D802", "U+DEE5">>, <<"U+D802", "U+DEE6">>,
     <<"U+D803", "U+DD24">>, <<"U+D803", "U+DD25">>, <<"U+D803", "U+DD26">>,
     <<"U+D803", "U+DD27">>, <<"U+D803", "U+DD4E">>, <<"U+D803", "U+DD69">>,
     <<"U+D803", "U+DD6A">>, <<"U+D803", "U+DD6B">>, <<"U+D803", "U+DD6C">>,
     <<"U+D803", "U+DD6D">>, <<"U+D803", "U+DD6F">>, <<"U+D803", "U+DEAB">>,
     <<"U+D803", "U+DEAC">>, <<"U+D803", "U+DEC5">>, <<"U+D803", "U+DEFA">>,
     <<"U+D803", "U+DEFB">>, <<"U+D803", "U+DEFC">>, <<"U+D803", "U+DEFD">>,
     <<"U+D803", "U+DEFE">>, <<"U+D803", "U+DEFF">>, <<"U+D803", "U+DF46">>,
     <<"U+D803", "U+DF47">>, <<"U+D803", "U+DF48">>, <<"U+D803", "U+DF49">>,
     <<"U+D803", "U+DF4A">>, <<"U+D803", "U+DF4B">>, <<"U+D803", "U+DF4C">>,
     <<"U+D803", "U+DF4D">>, <<"U+D803", "U+DF4E">>, <<"U+D803", "U+DF4F">>,
     <<"U+D803", "U+DF50">>, <<"U+D803", "U+DF82">>, <<"U+D803", "U+DF83">>,
     <<"U+D803", "U+DF84">>, <<"U+D803", "U+DF85">>, <<"U+D804", "U+DC01">>,
     <<"U+D804", "U+DC38">>, <<"U+D804", "U+DC39">>, <<"U+D804", "U+DC3A">>,
     <<"U+D804", "U+DC3B">>, <<"U+D804", "U+DC3C">>, <<"U+D804", "U+DC3D">>,
     <<"U+D804", "U+DC3E">>, <<"U+D804", "U+DC3F">>, <<"U+D804", "U+DC40">>,
     <<"U+D804", "U+DC41">>, <<"U+D804", "U+DC42">>, <<"U+D804", "U+DC43">>,
     <<"U+D804", "U+DC44">>, <<"U+D804", "U+DC45">>, <<"U+D804", "U+DC46">>,
     <<"U+D804", "U+DC70">>, <<"U+D804", "U+DC73">>, <<"U+D804", "U+DC74">>,
     <<"U+D804", "U+DC7F">>, <<"U+D804", "U+DC80">>, <<"U+D804", "U+DC81">>,
     <<"U+D804", "U+DCB3">>, <<"U+D804", "U+DCB4">>, <<"U+D804", "U+DCB5">>,
     <<"U+D804", "U+DCB6">>, <<"U+D804", "U+DCB9">>, <<"U+D804", "U+DCBA">>,
     <<"U+D804", "U+DCBD">>, <<"U+D804", "U+DCC2">>, <<"U+D804", "U+DCCD">>,
     <<"U+D804", "U+DD00">>, <<"U+D804", "U+DD01">>, <<"U+D804", "U+DD02">>,
     <<"U+D804", "U+DD27">>, <<"U+D804", "U+DD28">>, <<"U+D804", "U+DD29">>,
     <<"U+D804", "U+DD2A">>, <<"U+D804", "U+DD2B">>, <<"U+D804", "U+DD2D">>,
     <<"U+D804", "U+DD2E">>, <<"U+D804", "U+DD2F">>, <<"U+D804", "U+DD30">>,
     <<"U+D804", "U+DD31">>, <<"U+D804", "U+DD32">>, <<"U+D804", "U+DD33">>,
     <<"U+D804", "U+DD34">>, <<"U+D804", "U+DD73">>, <<"U+D804", "U+DD80">>,
     <<"U+D804", "U+DD81">>, <<"U+D804", "U+DDB6">>, <<"U+D804", "U+DDB7">>,
     <<"U+D804", "U+DDB8">>, <<"U+D804", "U+DDB9">>, <<"U+D804", "U+DDBA">>,
     <<"U+D804", "U+DDBB">>, <<"U+D804", "U+DDBC">>, <<"U+D804", "U+DDBD">>,
     <<"U+D804", "U+DDBE">>, <<"U+D804", "U+DDC9">>, <<"U+D804", "U+DDCA">>,
     <<"U+D804", "U+DDCB">>, <<"U+D804", "U+DDCC">>, <<"U+D804", "U+DDCF">>,
     <<"U+D804", "U+DE2F">>, <<"U+D804", "U+DE30">>, <<"U+D804", "U+DE31">>,
     <<"U+D804", "U+DE34">>, <<"U+D804", "U+DE36">>, <<"U+D804", "U+DE37">>,
     <<"U+D804", "U+DE3E">>, <<"U+D804", "U+DE41">>, <<"U+D804", "U+DEDF">>,
     <<"U+D804", "U+DEE3">>, <<"U+D804", "U+DEE4">>, <<"U+D804", "U+DEE5">>,
     <<"U+D804", "U+DEE6">>, <<"U+D804", "U+DEE7">>, <<"U+D804", "U+DEE8">>,
     <<"U+D804", "U+DEE9">>, <<"U+D804", "U+DEEA">>, <<"U+D804", "U+DF00">>,
     <<"U+D804", "U+DF01">>, <<"U+D804", "U+DF3B">>, <<"U+D804", "U+DF3C">>,
     <<"U+D804", "U+DF40">>, <<"U+D804", "U+DF66">>, <<"U+D804", "U+DF67">>,
     <<"U+D804", "U+DF68">>, <<"U+D804", "U+DF69">>, <<"U+D804", "U+DF6A">>,
     <<"U+D804", "U+DF6B">>, <<"U+D804", "U+DF6C">>, <<"U+D804", "U+DF70">>,
     <<"U+D804", "U+DF71">>, <<"U+D804", "U+DF72">>, <<"U+D804", "U+DF73">>,
     <<"U+D804", "U+DF74">>, <<"U+D804", "U+DFBB">>, <<"U+D804", "U+DFBC">>,
     <<"U+D804", "U+DFBD">>, <<"U+D804", "U+DFBE">>, <<"U+D804", "U+DFBF">>,
     <<"U+D804", "U+DFC0">>, <<"U+D804", "U+DFCE">>, <<"U+D804", "U+DFD0">>,
     <<"U+D804", "U+DFD2">>, <<"U+D804", "U+DFE1">>, <<"U+D804", "U+DFE2">>,
     <<"U+D805", "U+DC38">>, <<"U+D805", "U+DC39">>, <<"U+D805", "U+DC3A">>,
     <<"U+D805", "U+DC3B">>, <<"U+D805", "U+DC3C">>, <<"U+D805", "U+DC3D">>,
     <<"U+D805", "U+DC3E">>, <<"U+D805", "U+DC3F">>, <<"U+D805", "U+DC42">>,
     <<"U+D805", "U+DC43">>, <<"U+D805", "U+DC44">>, <<"U+D805", "U+DC46">>,
     <<"U+D805", "U+DC5E">>, <<"U+D805", "U+DCB3">>, <<"U+D805", "U+DCB4">>,
     <<"U+D805", "U+DCB5">>, <<"U+D805", "U+DCB6">>, <<"U+D805", "U+DCB7">>,
     <<"U+D805", "U+DCB8">>, <<"U+D805", "U+DCBA">>, <<"U+D805", "U+DCBF">>,
     <<"U+D805", "U+DCC0">>, <<"U+D805", "U+DCC2">>, <<"U+D805", "U+DCC3">>,
     <<"U+D805", "U+DDB2">>, <<"U+D805", "U+DDB3">>, <<"U+D805", "U+DDB4">>,
     <<"U+D805", "U+DDB5">>, <<"U+D805", "U+DDBC">>, <<"U+D805", "U+DDBD">>,
     <<"U+D805", "U+DDBF">>, <<"U+D805", "U+DDC0">>, <<"U+D805", "U+DDDC">>,
     <<"U+D805", "U+DDDD">>, <<"U+D805", "U+DE33">>, <<"U+D805", "U+DE34">>,
     <<"U+D805", "U+DE35">>, <<"U+D805", "U+DE36">>, <<"U+D805", "U+DE37">>,
     <<"U+D805", "U+DE38">>, <<"U+D805", "U+DE39">>, <<"U+D805", "U+DE3A">>,
     <<"U+D805", "U+DE3D">>, <<"U+D805", "U+DE3F">>, <<"U+D805", "U+DE40">>,
     <<"U+D805", "U+DEAB">>, <<"U+D805", "U+DEAD">>, <<"U+D805", "U+DEB0">>,
     <<"U+D805", "U+DEB1">>, <<"U+D805", "U+DEB2">>, <<"U+D805", "U+DEB3">>,
     <<"U+D805", "U+DEB4">>, <<"U+D805", "U+DEB5">>, <<"U+D805", "U+DEB7">>,
     <<"U+D805", "U+DF1D">>, <<"U+D805", "U+DF1F">>, <<"U+D805", "U+DF22">>,
     <<"U+D805", "U+DF23">>, <<"U+D805", "U+DF24">>, <<"U+D805", "U+DF25">>,
     <<"U+D805", "U+DF27">>, <<"U+D805", "U+DF28">>, <<"U+D805", "U+DF29">>,
     <<"U+D805", "U+DF2A">>, <<"U+D805", "U+DF2B">>, <<"U+D806", "U+DC2F">>,
     <<"U+D806", "U+DC30">>, <<"U+D806", "U+DC31">>, <<"U+D806", "U+DC32">>,
     <<"U+D806", "U+DC33">>, <<"U+D806", "U+DC34">>, <<"U+D806", "U+DC35">>,
     <<"U+D806", "U+DC36">>, <<"U+D806", "U+DC37">>, <<"U+D806", "U+DC39">>,
     <<"U+D806", "U+DC3A">>, <<"U+D806", "U+DD3B">>, <<"U+D806", "U+DD3C">>,
     <<"U+D806", "U+DD3E">>, <<"U+D806", "U+DD43">>, <<"U+D806", "U+DDD4">>,
     <<"U+D806", "U+DDD5">>, <<"U+D806", "U+DDD6">>, <<"U+D806", "U+DDD7">>,
     <<"U+D806", "U+DDDA">>, <<"U+D806", "U+DDDB">>, <<"U+D806", "U+DDE0">>,
     <<"U+D806", "U+DE01">>, <<"U+D806", "U+DE02">>, <<"U+D806", "U+DE03">>,
     <<"U+D806", "U+DE04">>, <<"U+D806", "U+DE05">>, <<"U+D806", "U+DE06">>,
     <<"U+D806", "U+DE07">>, <<"U+D806", "U+DE08">>, <<"U+D806", "U+DE09">>,
     <<"U+D806", "U+DE0A">>, <<"U+D806", "U+DE33">>, <<"U+D806", "U+DE34">>,
     <<"U+D806", "U+DE35">>, <<"U+D806", "U+DE36">>, <<"U+D806", "U+DE37">>,
     <<"U+D806", "U+DE38">>, <<"U+D806", "U+DE3B">>, <<"U+D806", "U+DE3C">>,
     <<"U+D806", "U+DE3D">>, <<"U+D806", "U+DE3E">>, <<"U+D806", "U+DE47">>,
     <<"U+D806", "U+DE51">>, <<"U+D806", "U+DE52">>, <<"U+D806", "U+DE53">>,
     <<"U+D806", "U+DE54">>, <<"U+D806", "U+DE55">>, <<"U+D806", "U+DE56">>,
     <<"U+D806", "U+DE59">>, <<"U+D806", "U+DE5A">>, <<"U+D806", "U+DE5B">>,
     <<"U+D806", "U+DE8A">>, <<"U+D806", "U+DE8B">>, <<"U+D806", "U+DE8C">>,
     <<"U+D806", "U+DE8D">>, <<"U+D806", "U+DE8E">>, <<"U+D806", "U+DE8F">>,
     <<"U+D806", "U+DE90">>, <<"U+D806", "U+DE91">>, <<"U+D806", "U+DE92">>,
     <<"U+D806", "U+DE93">>, <<"U+D806", "U+DE94">>, <<"U+D806", "U+DE95">>,
     <<"U+D806", "U+DE96">>, <<"U+D806", "U+DE98">>, <<"U+D806", "U+DE99">>,
     <<"U+D806", "U+DF60">>, <<"U+D806", "U+DF62">>, <<"U+D806", "U+DF63">>,
     <<"U+D806", "U+DF64">>, <<"U+D806", "U+DF66">>, <<"U+D807", "U+DC30">>,
     <<"U+D807", "U+DC31">>, <<"U+D807", "U+DC32">>, <<"U+D807", "U+DC33">>,
     <<"U+D807", "U+DC34">>, <<"U+D807", "U+DC35">>, <<"U+D807", "U+DC36">>,
     <<"U+D807", "U+DC38">>, <<"U+D807", "U+DC39">>, <<"U+D807", "U+DC3A">>,
     <<"U+D807", "U+DC3B">>, <<"U+D807", "U+DC3C">>, <<"U+D807", "U+DC3D">>,
     <<"U+D807", "U+DC3F">>, <<"U+D807", "U+DC92">>, <<"U+D807", "U+DC93">>,
     <<"U+D807", "U+DC94">>, <<"U+D807", "U+DC95">>, <<"U+D807", "U+DC96">>,
     <<"U+D807", "U+DC97">>, <<"U+D807", "U+DC98">>, <<"U+D807", "U+DC99">>,
     <<"U+D807", "U+DC9A">>, <<"U+D807", "U+DC9B">>, <<"U+D807", "U+DC9C">>,
     <<"U+D807", "U+DC9D">>, <<"U+D807", "U+DC9E">>, <<"U+D807", "U+DC9F">>,
     <<"U+D807", "U+DCA0">>, <<"U+D807", "U+DCA1">>, <<"U+D807", "U+DCA2">>,
     <<"U+D807", "U+DCA3">>, <<"U+D807", "U+DCA4">>, <<"U+D807", "U+DCA5">>,
     <<"U+D807", "U+DCA6">>, <<"U+D807", "U+DCA7">>, <<"U+D807", "U+DCAA">>,
     <<"U+D807", "U+DCAB">>, <<"U+D807", "U+DCAC">>, <<"U+D807", "U+DCAD">>,
     <<"U+D807", "U+DCAE">>, <<"U+D807", "U+DCAF">>, <<"U+D807", "U+DCB0">>,
     <<"U+D807", "U+DCB2">>, <<"U+D807", "U+DCB3">>, <<"U+D807", "U+DCB5">>,
     <<"U+D807", "U+DCB6">>, <<"U+D807", "U+DD31">>, <<"U+D807", "U+DD32">>,
     <<"U+D807", "U+DD33">>, <<"U+D807", "U+DD34">>, <<"U+D807", "U+DD35">>,
     <<"U+D807", "U+DD36">>, <<"U+D807", "U+DD3A">>, <<"U+D807", "U+DD3C">>,
     <<"U+D807", "U+DD3D">>, <<"U+D807", "U+DD3F">>, <<"U+D807", "U+DD40">>,
     <<"U+D807", "U+DD41">>, <<"U+D807", "U+DD42">>, <<"U+D807", "U+DD43">>,
     <<"U+D807", "U+DD44">>, <<"U+D807", "U+DD45">>, <<"U+D807", "U+DD47">>,
     <<"U+D807", "U+DD90">>, <<"U+D807", "U+DD91">>, <<"U+D807", "U+DD95">>,
     <<"U+D807", "U+DD97">>, <<"U+D807", "U+DDD9">>, <<"U+D807", "U+DEF3">>,
     <<"U+D807", "U+DEF4">>, <<"U+D807", "U+DF00">>, <<"U+D807", "U+DF01">>,
     <<"U+D807", "U+DF36">>, <<"U+D807", "U+DF37">>, <<"U+D807", "U+DF38">>,
     <<"U+D807", "U+DF39">>, <<"U+D807", "U+DF3A">>, <<"U+D807", "U+DF40">>,
     <<"U+D807", "U+DF42">>, <<"U+D807", "U+DF5A">>, <<"U+D80D", "U+DC30">>,
     <<"U+D80D", "U+DC31">>, <<"U+D80D", "U+DC32">>, <<"U+D80D", "U+DC33">>,
     <<"U+D80D", "U+DC34">>, <<"U+D80D", "U+DC35">>, <<"U+D80D", "U+DC36">>,
     <<"U+D80D", "U+DC37">>, <<"U+D80D", "U+DC38">>, <<"U+D80D", "U+DC39">>,
     <<"U+D80D", "U+DC3A">>, <<"U+D80D", "U+DC3B">>, <<"U+D80D", "U+DC3C">>,
     <<"U+D80D", "U+DC3D">>, <<"U+D80D", "U+DC3E">>, <<"U+D80D", "U+DC3F">>,
     <<"U+D80D", "U+DC40">>, <<"U+D80D", "U+DC47">>, <<"U+D80D", "U+DC48">>,
     <<"U+D80D", "U+DC49">>, <<"U+D80D", "U+DC4A">>, <<"U+D80D", "U+DC4B">>,
     <<"U+D80D", "U+DC4C">>, <<"U+D80D", "U+DC4D">>, <<"U+D80D", "U+DC4E">>,
     <<"U+D80D", "U+DC4F">>, <<"U+D80D", "U+DC50">>, <<"U+D80D", "U+DC51">>,
     <<"U+D80D", "U+DC52">>, <<"U+D80D", "U+DC53">>, <<"U+D80D", "U+DC54">>,
     <<"U+D80D", "U+DC55">>, <<"U+D818", "U+DD1E">>, <<"U+D818", "U+DD1F">>,
     <<"U+D818", "U+DD20">>, <<"U+D818", "U+DD21">>, <<"U+D818", "U+DD22">>,
     <<"U+D818", "U+DD23">>, <<"U+D818", "U+DD24">>, <<"U+D818", "U+DD25">>,
     <<"U+D818", "U+DD26">>, <<"U+D818", "U+DD27">>, <<"U+D818", "U+DD28">>,
     <<"U+D818", "U+DD29">>, <<"U+D818", "U+DD2D">>, <<"U+D818", "U+DD2E">>,
     <<"U+D818", "U+DD2F">>, <<"U+D81A", "U+DEF0">>, <<"U+D81A", "U+DEF1">>,
     <<"U+D81A", "U+DEF2">>, <<"U+D81A", "U+DEF3">>, <<"U+D81A", "U+DEF4">>,
     <<"U+D81A", "U+DF30">>, <<"U+D81A", "U+DF31">>, <<"U+D81A", "U+DF32">>,
     <<"U+D81A", "U+DF33">>, <<"U+D81A", "U+DF34">>, <<"U+D81A", "U+DF35">>,
     <<"U+D81A", "U+DF36">>, <<"U+D81A", "U+DF40">>, <<"U+D81A", "U+DF41">>,
     <<"U+D81A", "U+DF42">>, <<"U+D81A", "U+DF43">>, <<"U+D81B", "U+DD40">>,
     <<"U+D81B", "U+DD41">>, <<"U+D81B", "U+DD42">>, <<"U+D81B", "U+DD6B">>,
     <<"U+D81B", "U+DD6C">>, <<"U+D81B", "U+DF4F">>, <<"U+D81B", "U+DF8F">>,
     <<"U+D81B", "U+DF90">>, <<"U+D81B", "U+DF91">>, <<"U+D81B", "U+DF92">>,
     <<"U+D81B", "U+DF93">>, <<"U+D81B", "U+DF94">>, <<"U+D81B", "U+DF95">>,
     <<"U+D81B", "U+DF96">>, <<"U+D81B", "U+DF97">>, <<"U+D81B", "U+DF98">>,
     <<"U+D81B", "U+DF99">>, <<"U+D81B", "U+DF9A">>, <<"U+D81B", "U+DF9B">>,
     <<"U+D81B", "U+DF9C">>, <<"U+D81B", "U+DF9D">>, <<"U+D81B", "U+DF9E">>,
     <<"U+D81B", "U+DF9F">>, <<"U+D81B", "U+DFE0">>, <<"U+D81B", "U+DFE1">>,
     <<"U+D81B", "U+DFE3">>, <<"U+D81B", "U+DFE4">>, <<"U+D81B", "U+DFF2">>,
     <<"U+D81B", "U+DFF3">>, <<"U+D82B", "U+DFF0">>, <<"U+D82B", "U+DFF1">>,
     <<"U+D82B", "U+DFF2">>, <<"U+D82B", "U+DFF3">>, <<"U+D82B", "U+DFF5">>,
     <<"U+D82B", "U+DFF6">>, <<"U+D82B", "U+DFF7">>, <<"U+D82B", "U+DFF8">>,
     <<"U+D82B", "U+DFF9">>, <<"U+D82B", "U+DFFA">>, <<"U+D82B", "U+DFFB">>,
     <<"U+D82B", "U+DFFD">>, <<"U+D82B", "U+DFFE">>, <<"U+D82F", "U+DC9D">>,
     <<"U+D82F", "U+DC9E">>, <<"U+D82F", "U+DCA0">>, <<"U+D82F", "U+DCA1">>,
     <<"U+D82F", "U+DCA2">>, <<"U+D82F", "U+DCA3">>, <<"U+D833", "U+DF00">>,
     <<"U+D833", "U+DF01">>, <<"U+D833", "U+DF02">>, <<"U+D833", "U+DF03">>,
     <<"U+D833", "U+DF04">>, <<"U+D833", "U+DF05">>, <<"U+D833", "U+DF06">>,
     <<"U+D833", "U+DF07">>, <<"U+D833", "U+DF08">>, <<"U+D833", "U+DF09">>,
     <<"U+D833", "U+DF0A">>, <<"U+D833", "U+DF0B">>, <<"U+D833", "U+DF0C">>,
     <<"U+D833", "U+DF0D">>, <<"U+D833", "U+DF0E">>, <<"U+D833", "U+DF0F">>,
     <<"U+D833", "U+DF10">>, <<"U+D833", "U+DF11">>, <<"U+D833", "U+DF12">>,
     <<"U+D833", "U+DF13">>, <<"U+D833", "U+DF14">>, <<"U+D833", "U+DF15">>,
     <<"U+D833", "U+DF16">>, <<"U+D833", "U+DF17">>, <<"U+D833", "U+DF18">>,
     <<"U+D833", "U+DF19">>, <<"U+D833", "U+DF1A">>, <<"U+D833", "U+DF1B">>,
     <<"U+D833", "U+DF1C">>, <<"U+D833", "U+DF1D">>, <<"U+D833", "U+DF1E">>,
     <<"U+D833", "U+DF1F">>, <<"U+D833", "U+DF20">>, <<"U+D833", "U+DF21">>,
     <<"U+D833", "U+DF22">>, <<"U+D833", "U+DF23">>, <<"U+D833", "U+DF24">>,
     <<"U+D833", "U+DF25">>, <<"U+D833", "U+DF26">>, <<"U+D833", "U+DF27">>,
     <<"U+D833", "U+DF28">>, <<"U+D833", "U+DF29">>, <<"U+D833", "U+DF2A">>,
     <<"U+D833", "U+DF2B">>, <<"U+D833", "U+DF2C">>, <<"U+D833", "U+DF2D">>,
     <<"U+D833", "U+DF30">>, <<"U+D833", "U+DF31">>, <<"U+D833", "U+DF32">>,
     <<"U+D833", "U+DF33">>, <<"U+D833", "U+DF34">>, <<"U+D833", "U+DF35">>,
     <<"U+D833", "U+DF36">>, <<"U+D833", "U+DF37">>, <<"U+D833", "U+DF38">>,
     <<"U+D833", "U+DF39">>, <<"U+D833", "U+DF3A">>, <<"U+D833", "U+DF3B">>,
     <<"U+D833", "U+DF3C">>, <<"U+D833", "U+DF3D">>, <<"U+D833", "U+DF3E">>,
     <<"U+D833", "U+DF3F">>, <<"U+D833", "U+DF40">>, <<"U+D833", "U+DF41">>,
     <<"U+D833", "U+DF42">>, <<"U+D833", "U+DF43">>, <<"U+D833", "U+DF44">>,
     <<"U+D833", "U+DF45">>, <<"U+D833", "U+DF46">>, <<"U+D834", "U+DD67">>,
     <<"U+D834", "U+DD68">>, <<"U+D834", "U+DD69">>, <<"U+D834", "U+DD73">>,
     <<"U+D834", "U+DD74">>, <<"U+D834", "U+DD75">>, <<"U+D834", "U+DD76">>,
     <<"U+D834", "U+DD77">>, <<"U+D834", "U+DD78">>, <<"U+D834", "U+DD79">>,
     <<"U+D834", "U+DD7A">>, <<"U+D834", "U+DD7B">>, <<"U+D834", "U+DD7C">>,
     <<"U+D834", "U+DD7D">>, <<"U+D834", "U+DD7E">>, <<"U+D834", "U+DD7F">>,
     <<"U+D834", "U+DD80">>, <<"U+D834", "U+DD81">>, <<"U+D834", "U+DD82">>,
     <<"U+D834", "U+DD85">>, <<"U+D834", "U+DD86">>, <<"U+D834", "U+DD87">>,
     <<"U+D834", "U+DD88">>, <<"U+D834", "U+DD89">>, <<"U+D834", "U+DD8A">>,
     <<"U+D834", "U+DD8B">>, <<"U+D834", "U+DDAA">>, <<"U+D834", "U+DDAB">>,
     <<"U+D834", "U+DDAC">>, <<"U+D834", "U+DDAD">>, <<"U+D834", "U+DE42">>,
     <<"U+D834", "U+DE43">>, <<"U+D834", "U+DE44">>, <<"U+D836", "U+DE00">>,
     <<"U+D836", "U+DE01">>, <<"U+D836", "U+DE02">>, <<"U+D836", "U+DE03">>,
     <<"U+D836", "U+DE04">>, <<"U+D836", "U+DE05">>, <<"U+D836", "U+DE06">>,
     <<"U+D836", "U+DE07">>, <<"U+D836", "U+DE08">>, <<"U+D836", "U+DE09">>,
     <<"U+D836", "U+DE0A">>, <<"U+D836", "U+DE0B">>, <<"U+D836", "U+DE0C">>,
     <<"U+D836", "U+DE0D">>, <<"U+D836", "U+DE0E">>, <<"U+D836", "U+DE0F">>,
     <<"U+D836", "U+DE10">>, <<"U+D836", "U+DE11">>, <<"U+D836", "U+DE12">>,
     <<"U+D836", "U+DE13">>, <<"U+D836", "U+DE14">>, <<"U+D836", "U+DE15">>,
     <<"U+D836", "U+DE16">>, <<"U+D836", "U+DE17">>, <<"U+D836", "U+DE18">>,
     <<"U+D836", "U+DE19">>, <<"U+D836", "U+DE1A">>, <<"U+D836", "U+DE1B">>,
     <<"U+D836", "U+DE1C">>, <<"U+D836", "U+DE1D">>, <<"U+D836", "U+DE1E">>,
     <<"U+D836", "U+DE1F">>, <<"U+D836", "U+DE20">>, <<"U+D836", "U+DE21">>,
     <<"U+D836", "U+DE22">>, <<"U+D836", "U+DE23">>, <<"U+D836", "U+DE24">>,
     <<"U+D836", "U+DE25">>, <<"U+D836", "U+DE26">>, <<"U+D836", "U+DE27">>,
     <<"U+D836", "U+DE28">>, <<"U+D836", "U+DE29">>, <<"U+D836", "U+DE2A">>,
     <<"U+D836", "U+DE2B">>, <<"U+D836", "U+DE2C">>, <<"U+D836", "U+DE2D">>,
     <<"U+D836", "U+DE2E">>, <<"U+D836", "U+DE2F">>, <<"U+D836", "U+DE30">>,
     <<"U+D836", "U+DE31">>, <<"U+D836", "U+DE32">>, <<"U+D836", "U+DE33">>,
     <<"U+D836", "U+DE34">>, <<"U+D836", "U+DE35">>, <<"U+D836", "U+DE36">>,
     <<"U+D836", "U+DE3B">>, <<"U+D836", "U+DE3C">>, <<"U+D836", "U+DE3D">>,
     <<"U+D836", "U+DE3E">>, <<"U+D836", "U+DE3F">>, <<"U+D836", "U+DE40">>,
     <<"U+D836", "U+DE41">>, <<"U+D836", "U+DE42">>, <<"U+D836", "U+DE43">>,
     <<"U+D836", "U+DE44">>, <<"U+D836", "U+DE45">>, <<"U+D836", "U+DE46">>,
     <<"U+D836", "U+DE47">>, <<"U+D836", "U+DE48">>, <<"U+D836", "U+DE49">>,
     <<"U+D836", "U+DE4A">>, <<"U+D836", "U+DE4B">>, <<"U+D836", "U+DE4C">>,
     <<"U+D836", "U+DE4D">>, <<"U+D836", "U+DE4E">>, <<"U+D836", "U+DE4F">>,
     <<"U+D836", "U+DE50">>, <<"U+D836", "U+DE51">>, <<"U+D836", "U+DE52">>,
     <<"U+D836", "U+DE53">>, <<"U+D836", "U+DE54">>, <<"U+D836", "U+DE55">>,
     <<"U+D836", "U+DE56">>, <<"U+D836", "U+DE57">>, <<"U+D836", "U+DE58">>,
     <<"U+D836", "U+DE59">>, <<"U+D836", "U+DE5A">>, <<"U+D836", "U+DE5B">>,
     <<"U+D836", "U+DE5C">>, <<"U+D836", "U+DE5D">>, <<"U+D836", "U+DE5E">>,
     <<"U+D836", "U+DE5F">>, <<"U+D836", "U+DE60">>, <<"U+D836", "U+DE61">>,
     <<"U+D836", "U+DE62">>, <<"U+D836", "U+DE63">>, <<"U+D836", "U+DE64">>,
     <<"U+D836", "U+DE65">>, <<"U+D836", "U+DE66">>, <<"U+D836", "U+DE67">>,
     <<"U+D836", "U+DE68">>, <<"U+D836", "U+DE69">>, <<"U+D836", "U+DE6A">>,
     <<"U+D836", "U+DE6B">>, <<"U+D836", "U+DE6C">>, <<"U+D836", "U+DE75">>,
     <<"U+D836", "U+DE84">>, <<"U+D836", "U+DE9B">>, <<"U+D836", "U+DE9C">>,
     <<"U+D836", "U+DE9D">>, <<"U+D836", "U+DE9E">>, <<"U+D836", "U+DE9F">>,
     <<"U+D836", "U+DEA1">>, <<"U+D836", "U+DEA2">>, <<"U+D836", "U+DEA3">>,
     <<"U+D836", "U+DEA4">>, <<"U+D836", "U+DEA5">>, <<"U+D836", "U+DEA6">>,
     <<"U+D836", "U+DEA7">>, <<"U+D836", "U+DEA8">>, <<"U+D836", "U+DEA9">>,
     <<"U+D836", "U+DEAA">>, <<"U+D836", "U+DEAB">>, <<"U+D836", "U+DEAC">>,
     <<"U+D836", "U+DEAD">>, <<"U+D836", "U+DEAE">>, <<"U+D836", "U+DEAF">>,
     <<"U+D838", "U+DC00">>, <<"U+D838", "U+DC01">>, <<"U+D838", "U+DC02">>,
     <<"U+D838", "U+DC03">>, <<"U+D838", "U+DC04">>, <<"U+D838", "U+DC05">>,
     <<"U+D838", "U+DC06">>, <<"U+D838", "U+DC08">>, <<"U+D838", "U+DC09">>,
     <<"U+D838", "U+DC0A">>, <<"U+D838", "U+DC0B">>, <<"U+D838", "U+DC0C">>,
     <<"U+D838", "U+DC0D">>, <<"U+D838", "U+DC0E">>, <<"U+D838", "U+DC0F">>,
     <<"U+D838", "U+DC10">>, <<"U+D838", "U+DC11">>, <<"U+D838", "U+DC12">>,
     <<"U+D838", "U+DC13">>, <<"U+D838", "U+DC14">>, <<"U+D838", "U+DC15">>,
     <<"U+D838", "U+DC16">>, <<"U+D838", "U+DC17">>, <<"U+D838", "U+DC18">>,
     <<"U+D838", "U+DC1B">>, <<"U+D838", "U+DC1C">>, <<"U+D838", "U+DC1D">>,
     <<"U+D838", "U+DC1E">>, <<"U+D838", "U+DC1F">>, <<"U+D838", "U+DC20">>,
     <<"U+D838", "U+DC21">>, <<"U+D838", "U+DC23">>, <<"U+D838", "U+DC24">>,
     <<"U+D838", "U+DC26">>, <<"U+D838", "U+DC27">>, <<"U+D838", "U+DC28">>,
     <<"U+D838", "U+DC29">>, <<"U+D838", "U+DC2A">>, <<"U+D838", "U+DC30">>,
     <<"U+D838", "U+DC31">>, <<"U+D838", "U+DC32">>, <<"U+D838", "U+DC33">>,
     <<"U+D838", "U+DC34">>, <<"U+D838", "U+DC35">>, <<"U+D838", "U+DC36">>,
     <<"U+D838", "U+DC37">>, <<"U+D838", "U+DC38">>, <<"U+D838", "U+DC39">>,
     <<"U+D838", "U+DC3A">>, <<"U+D838", "U+DC3B">>, <<"U+D838", "U+DC3C">>,
     <<"U+D838", "U+DC3D">>, <<"U+D838", "U+DC3E">>, <<"U+D838", "U+DC3F">>,
     <<"U+D838", "U+DC40">>, <<"U+D838", "U+DC41">>, <<"U+D838", "U+DC42">>,
     <<"U+D838", "U+DC43">>, <<"U+D838", "U+DC44">>, <<"U+D838", "U+DC45">>,
     <<"U+D838", "U+DC46">>, <<"U+D838", "U+DC47">>, <<"U+D838", "U+DC48">>,
     <<"U+D838", "U+DC49">>, <<"U+D838", "U+DC4A">>, <<"U+D838", "U+DC4B">>,
     <<"U+D838", "U+DC4C">>, <<"U+D838", "U+DC4D">>, <<"U+D838", "U+DC4E">>,
     <<"U+D838", "U+DC4F">>, <<"U+D838", "U+DC50">>, <<"U+D838", "U+DC51">>,
     <<"U+D838", "U+DC52">>, <<"U+D838", "U+DC53">>, <<"U+D838", "U+DC54">>,
     <<"U+D838", "U+DC55">>, <<"U+D838", "U+DC56">>, <<"U+D838", "U+DC57">>,
     <<"U+D838", "U+DC58">>, <<"U+D838", "U+DC59">>, <<"U+D838", "U+DC5A">>,
     <<"U+D838", "U+DC5B">>, <<"U+D838", "U+DC5C">>, <<"U+D838", "U+DC5D">>,
     <<"U+D838", "U+DC5E">>, <<"U+D838", "U+DC5F">>, <<"U+D838", "U+DC60">>,
     <<"U+D838", "U+DC61">>, <<"U+D838", "U+DC62">>, <<"U+D838", "U+DC63">>,
     <<"U+D838", "U+DC64">>, <<"U+D838", "U+DC65">>, <<"U+D838", "U+DC66">>,
     <<"U+D838", "U+DC67">>, <<"U+D838", "U+DC68">>, <<"U+D838", "U+DC69">>,
     <<"U+D838", "U+DC6A">>, <<"U+D838", "U+DC6B">>, <<"U+D838", "U+DC6C">>,
     <<"U+D838", "U+DC6D">>, <<"U+D838", "U+DC8F">>, <<"U+D838", "U+DD30">>,
     <<"U+D838", "U+DD31">>, <<"U+D838", "U+DD32">>, <<"U+D838", "U+DD33">>,
     <<"U+D838", "U+DD34">>, <<"U+D838", "U+DD35">>, <<"U+D838", "U+DD36">>,
     <<"U+D838", "U+DD37">>, <<"U+D838", "U+DD38">>, <<"U+D838", "U+DD39">>,
     <<"U+D838", "U+DD3A">>, <<"U+D838", "U+DD3B">>, <<"U+D838", "U+DD3C">>,
     <<"U+D838", "U+DD3D">>, <<"U+D838", "U+DEAE">>, <<"U+D838", "U+DEEC">>,
     <<"U+D838", "U+DEED">>, <<"U+D838", "U+DEEE">>, <<"U+D838", "U+DEEF">>,
     <<"U+D839", "U+DCEB">>, <<"U+D839", "U+DCEC">>, <<"U+D839", "U+DCED">>,
     <<"U+D839", "U+DCEE">>, <<"U+D839", "U+DCEF">>, <<"U+D839", "U+DDEE">>,
     <<"U+D839", "U+DDEF">>, <<"U+D839", "U+DEE3">>, <<"U+D839", "U+DEE6">>,
     <<"U+D839", "U+DEEE">>, <<"U+D839", "U+DEEF">>, <<"U+D839", "U+DEF5">>,
     <<"U+D839", "U+DEFF">>, <<"U+D83A", "U+DCD0">>, <<"U+D83A", "U+DCD1">>,
     <<"U+D83A", "U+DCD2">>, <<"U+D83A", "U+DCD3">>, <<"U+D83A", "U+DCD4">>,
     <<"U+D83A", "U+DCD5">>, <<"U+D83A", "U+DCD6">>, <<"U+D83A", "U+DD44">>,
     <<"U+D83A", "U+DD45">>, <<"U+D83A", "U+DD46">>, <<"U+D83A", "U+DD47">>,
     <<"U+D83A", "U+DD48">>, <<"U+D83A", "U+DD49">>, <<"U+D83A", "U+DD4A">>,
     <<"U+D83A", "U+DD4B">>, <<"U+D83C", "U+DFFB">>, <<"U+D83C", "U+DFFC">>,
     <<"U+D83C", "U+DFFD">>, <<"U+D83C", "U+DFFE">>, <<"U+D83C", "U+DFFF">>,
     <<"U+DB40", "U+DC01">>, <<"U+DB40", "U+DC20">>, <<"U+DB40", "U+DC21">>,
     <<"U+DB40", "U+DC22">>, <<"U+DB40", "U+DC23">>, <<"U+DB40", "U+DC24">>,
     <<"U+DB40", "U+DC25">>, <<"U+DB40", "U+DC26">>, <<"U+DB40", "U+DC27">>,
     <<"U+DB40", "U+DC28">>, <<"U+DB40", "U+DC29">>, <<"U+DB40", "U+DC2A">>,
     <<"U+DB40", "U+DC2B">>, <<"U+DB40", "U+DC2C">>, <<"U+DB40", "U+DC2D">>,
     <<"U+DB40", "U+DC2E">>, <<"U+DB40", "U+DC2F">>, <<"U+DB40", "U+DC30">>,
     <<"U+DB40", "U+DC31">>, <<"U+DB40", "U+DC32">>, <<"U+DB40", "U+DC33">>,
     <<"U+DB40", "U+DC34">>, <<"U+DB40", "U+DC35">>, <<"U+DB40", "U+DC36">>,
     <<"U+DB40", "U+DC37">>, <<"U+DB40", "U+DC38">>, <<"U+DB40", "U+DC39">>,
     <<"U+DB40", "U+DC3A">>, <<"U+DB40", "U+DC3B">>, <<"U+DB40", "U+DC3C">>,
     <<"U+DB40", "U+DC3D">>, <<"U+DB40", "U+DC3E">>, <<"U+DB40", "U+DC3F">>,
     <<"U+DB40", "U+DC40">>, <<"U+DB40", "U+DC41">>, <<"U+DB40", "U+DC42">>,
     <<"U+DB40", "U+DC43">>, <<"U+DB40", "U+DC44">>, <<"U+DB40", "U+DC45">>,
     <<"U+DB40", "U+DC46">>, <<"U+DB40", "U+DC47">>, <<"U+DB40", "U+DC48">>,
     <<"U+DB40", "U+DC49">>, <<"U+DB40", "U+DC4A">>, <<"U+DB40", "U+DC4B">>,
     <<"U+DB40", "U+DC4C">>, <<"U+DB40", "U+DC4D">>, <<"U+DB40", "U+DC4E">>,
     <<"U+DB40", "U+DC4F">>, <<"U+DB40", "U+DC50">>, <<"U+DB40", "U+DC51">>,
     <<"U+DB40", "U+DC52">>, <<"U+DB40", "U+DC53">>, <<"U+DB40", "U+DC54">>,
     <<"U+DB40", "U+DC55">>, <<"U+DB40", "U+DC56">>, <<"U+DB40", "U+DC57">>,
     <<"U+DB40", "U+DC58">>, <<"U+DB40", "U+DC59">>, <<"U+DB40", "U+DC5A">>,
     <<"U+DB40", "U+DC5B">>, <<"U+DB40", "U+DC5C">>, <<"U+DB40", "U+DC5D">>,
     <<"U+DB40", "U+DC5E">>, <<"U+DB40", "U+DC5F">>, <<"U+DB40", "U+DC60">>,
     <<"U+DB40", "U+DC61">>, <<"U+DB40", "U+DC62">>, <<"U+DB40", "U+DC63">>,
     <<"U+DB40", "U+DC64">>, <<"U+DB40", "U+DC65">>, <<"U+DB40", "U+DC66">>,
     <<"U+DB40", "U+DC67">>, <<"U+DB40", "U+DC68">>, <<"U+DB40", "U+DC69">>,
     <<"U+DB40", "U+DC6A">>, <<"U+DB40", "U+DC6B">>, <<"U+DB40", "U+DC6C">>,
     <<"U+DB40", "U+DC6D">>, <<"U+DB40", "U+DC6E">>, <<"U+DB40", "U+DC6F">>,
     <<"U+DB40", "U+DC70">>, <<"U+DB40", "U+DC71">>, <<"U+DB40", "U+DC72">>,
     <<"U+DB40", "U+DC73">>, <<"U+DB40", "U+DC74">>, <<"U+DB40", "U+DC75">>,
     <<"U+DB40", "U+DC76">>, <<"U+DB40", "U+DC77">>, <<"U+DB40", "U+DC78">>,
     <<"U+DB40", "U+DC79">>, <<"U+DB40", "U+DC7A">>, <<"U+DB40", "U+DC7B">>,
     <<"U+DB40", "U+DC7C">>, <<"U+DB40", "U+DC7D">>, <<"U+DB40", "U+DC7E">>,
     <<"U+DB40", "U+DC7F">>, <<"U+DB40", "U+DD00">>, <<"U+DB40", "U+DD01">>,
     <<"U+DB40", "U+DD02">>, <<"U+DB40", "U+DD03">>, <<"U+DB40", "U+DD04">>,
     <<"U+DB40", "U+DD05">>, <<"U+DB40", "U+DD06">>, <<"U+DB40", "U+DD07">>,
     <<"U+DB40", "U+DD08">>, <<"U+DB40", "U+DD09">>, <<"U+DB40", "U+DD0A">>,
     <<"U+DB40", "U+DD0B">>, <<"U+DB40", "U+DD0C">>, <<"U+DB40", "U+DD0D">>,
     <<"U+DB40", "U+DD0E">>, <<"U+DB40", "U+DD0F">>, <<"U+DB40", "U+DD10">>,
     <<"U+DB40", "U+DD11">>, <<"U+DB40", "U+DD12">>, <<"U+DB40", "U+DD13">>,
     <<"U+DB40", "U+DD14">>, <<"U+DB40", "U+DD15">>, <<"U+DB40", "U+DD16">>,
     <<"U+DB40", "U+DD17">>, <<"U+DB40", "U+DD18">>, <<"U+DB40", "U+DD19">>,
     <<"U+DB40", "U+DD1A">>, <<"U+DB40", "U+DD1B">>, <<"U+DB40", "U+DD1C">>,
     <<"U+DB40", "U+DD1D">>, <<"U+DB40", "U+DD1E">>, <<"U+DB40", "U+DD1F">>,
     <<"U+DB40", "U+DD20">>, <<"U+DB40", "U+DD21">>, <<"U+DB40", "U+DD22">>,
     <<"U+DB40", "U+DD23">>, <<"U+DB40", "U+DD24">>, <<"U+DB40", "U+DD25">>,
     <<"U+DB40", "U+DD26">>, <<"U+DB40", "U+DD27">>, <<"U+DB40", "U+DD28">>,
     <<"U+DB40", "U+DD29">>, <<"U+DB40", "U+DD2A">>, <<"U+DB40", "U+DD2B">>,
     <<"U+DB40", "U+DD2C">>, <<"U+DB40", "U+DD2D">>, <<"U+DB40", "U+DD2E">>,
     <<"U+DB40", "U+DD2F">>, <<"U+DB40", "U+DD30">>, <<"U+DB40", "U+DD31">>,
     <<"U+DB40", "U+DD32">>, <<"U+DB40", "U+DD33">>, <<"U+DB40", "U+DD34">>,
     <<"U+DB40", "U+DD35">>, <<"U+DB40", "U+DD36">>, <<"U+DB40", "U+DD37">>,
     <<"U+DB40", "U+DD38">>, <<"U+DB40", "U+DD39">>, <<"U+DB40", "U+DD3A">>,
     <<"U+DB40", "U+DD3B">>, <<"U+DB40", "U+DD3C">>, <<"U+DB40", "U+DD3D">>,
     <<"U+DB40", "U+DD3E">>, <<"U+DB40", "U+DD3F">>, <<"U+DB40", "U+DD40">>,
     <<"U+DB40", "U+DD41">>, <<"U+DB40", "U+DD42">>, <<"U+DB40", "U+DD43">>,
     <<"U+DB40", "U+DD44">>, <<"U+DB40", "U+DD45">>, <<"U+DB40", "U+DD46">>,
     <<"U+DB40", "U+DD47">>, <<"U+DB40", "U+DD48">>, <<"U+DB40", "U+DD49">>,
     <<"U+DB40", "U+DD4A">>, <<"U+DB40", "U+DD4B">>, <<"U+DB40", "U+DD4C">>,
     <<"U+DB40", "U+DD4D">>, <<"U+DB40", "U+DD4E">>, <<"U+DB40", "U+DD4F">>,
     <<"U+DB40", "U+DD50">>, <<"U+DB40", "U+DD51">>, <<"U+DB40", "U+DD52">>,
     <<"U+DB40", "U+DD53">>, <<"U+DB40", "U+DD54">>, <<"U+DB40", "U+DD55">>,
     <<"U+DB40", "U+DD56">>, <<"U+DB40", "U+DD57">>, <<"U+DB40", "U+DD58">>,
     <<"U+DB40", "U+DD59">>, <<"U+DB40", "U+DD5A">>, <<"U+DB40", "U+DD5B">>,
     <<"U+DB40", "U+DD5C">>, <<"U+DB40", "U+DD5D">>, <<"U+DB40", "U+DD5E">>,
     <<"U+DB40", "U+DD5F">>, <<"U+DB40", "U+DD60">>, <<"U+DB40", "U+DD61">>,
     <<"U+DB40", "U+DD62">>, <<"U+DB40", "U+DD63">>, <<"U+DB40", "U+DD64">>,
     <<"U+DB40", "U+DD65">>, <<"U+DB40", "U+DD66">>, <<"U+DB40", "U+DD67">>,
     <<"U+DB40", "U+DD68">>, <<"U+DB40", "U+DD69">>, <<"U+DB40", "U+DD6A">>,
     <<"U+DB40", "U+DD6B">>, <<"U+DB40", "U+DD6C">>, <<"U+DB40", "U+DD6D">>,
     <<"U+DB40", "U+DD6E">>, <<"U+DB40", "U+DD6F">>, <<"U+DB40", "U+DD70">>,
     <<"U+DB40", "U+DD71">>, <<"U+DB40", "U+DD72">>, <<"U+DB40", "U+DD73">>,
     <<"U+DB40", "U+DD74">>, <<"U+DB40", "U+DD75">>, <<"U+DB40", "U+DD76">>,
     <<"U+DB40", "U+DD77">>, <<"U+DB40", "U+DD78">>, <<"U+DB40", "U+DD79">>,
     <<"U+DB40", "U+DD7A">>, <<"U+DB40", "U+DD7B">>, <<"U+DB40", "U+DD7C">>,
     <<"U+DB40", "U+DD7D">>, <<"U+DB40", "U+DD7E">>, <<"U+DB40", "U+DD7F">>,
     <<"U+DB40", "U+DD80">>, <<"U+DB40", "U+DD81">>, <<"U+DB40", "U+DD82">>,
     <<"U+DB40", "U+DD83">>, <<"U+DB40", "U+DD84">>, <<"U+DB40", "U+DD85">>,
     <<"U+DB40", "U+DD86">>, <<"U+DB40", "U+DD87">>, <<"U+DB40", "U+DD88">>,
     <<"U+DB40", "U+DD89">>, <<"U+DB40", "U+DD8A">>, <<"U+DB40", "U+DD8B">>,
     <<"U+DB40", "U+DD8C">>, <<"U+DB40", "U+DD8D">>, <<"U+DB40", "U+DD8E">>,
     <<"U+DB40", "U+DD8F">>, <<"U+DB40", "U+DD90">>, <<"U+DB40", "U+DD91">>,
     <<"U+DB40", "U+DD92">>, <<"U+DB40", "U+DD93">>, <<"U+DB40", "U+DD94">>,
     <<"U+DB40", "U+DD95">>, <<"U+DB40", "U+DD96">>, <<"U+DB40", "U+DD97">>,
     <<"U+DB40", "U+DD98">>, <<"U+DB40", "U+DD99">>, <<"U+DB40", "U+DD9A">>,
     <<"U+DB40", "U+DD9B">>, <<"U+DB40", "U+DD9C">>, <<"U+DB40", "U+DD9D">>,
     <<"U+DB40", "U+DD9E">>, <<"U+DB40", "U+DD9F">>, <<"U+DB40", "U+DDA0">>,
     <<"U+DB40", "U+DDA1">>, <<"U+DB40", "U+DDA2">>, <<"U+DB40", "U+DDA3">>,
     <<"U+DB40", "U+DDA4">>, <<"U+DB40", "U+DDA5">>, <<"U+DB40", "U+DDA6">>,
     <<"U+DB40", "U+DDA7">>, <<"U+DB40", "U+DDA8">>, <<"U+DB40", "U+DDA9">>,
     <<"U+DB40", "U+DDAA">>, <<"U+DB40", "U+DDAB">>, <<"U+DB40", "U+DDAC">>,
     <<"U+DB40", "U+DDAD">>, <<"U+DB40", "U+DDAE">>, <<"U+DB40", "U+DDAF">>,
     <<"U+DB40", "U+DDB0">>, <<"U+DB40", "U+DDB1">>, <<"U+DB40", "U+DDB2">>,
     <<"U+DB40", "U+DDB3">>, <<"U+DB40", "U+DDB4">>, <<"U+DB40", "U+DDB5">>,
     <<"U+DB40", "U+DDB6">>, <<"U+DB40", "U+DDB7">>, <<"U+DB40", "U+DDB8">>,
     <<"U+DB40", "U+DDB9">>, <<"U+DB40", "U+DDBA">>, <<"U+DB40", "U+DDBB">>,
     <<"U+DB40", "U+DDBC">>, <<"U+DB40", "U+DDBD">>, <<"U+DB40", "U+DDBE">>,
     <<"U+DB40", "U+DDBF">>, <<"U+DB40", "U+DDC0">>, <<"U+DB40", "U+DDC1">>,
     <<"U+DB40", "U+DDC2">>, <<"U+DB40", "U+DDC3">>, <<"U+DB40", "U+DDC4">>,
     <<"U+DB40", "U+DDC5">>, <<"U+DB40", "U+DDC6">>, <<"U+DB40", "U+DDC7">>,
     <<"U+DB40", "U+DDC8">>, <<"U+DB40", "U+DDC9">>, <<"U+DB40", "U+DDCA">>,
     <<"U+DB40", "U+DDCB">>, <<"U+DB40", "U+DDCC">>, <<"U+DB40", "U+DDCD">>,
     <<"U+DB40", "U+DDCE">>, <<"U+DB40", "U+DDCF">>, <<"U+DB40", "U+DDD0">>,
     <<"U+DB40", "U+DDD1">>, <<"U+DB40", "U+DDD2">>, <<"U+DB40", "U+DDD3">>,
     <<"U+DB40", "U+DDD4">>, <<"U+DB40", "U+DDD5">>, <<"U+DB40", "U+DDD6">>,
     <<"U+DB40", "U+DDD7">>, <<"U+DB40", "U+DDD8">>, <<"U+DB40", "U+DDD9">>,
     <<"U+DB40", "U+DDDA">>, <<"U+DB40", "U+DDDB">>, <<"U+DB40", "U+DDDC">>,
     <<"U+DB40", "U+DDDD">>, <<"U+DB40", "U+DDDE">>, <<"U+DB40", "U+DDDF">>,
     <<"U+DB40", "U+DDE0">>, <<"U+DB40", "U+DDE1">>, <<"U+DB40", "U+DDE2">>,
     <<"U+DB40", "U+DDE3">>, <<"U+DB40", "U+DDE4">>, <<"U+DB40", "U+DDE5">>,
     <<"U+DB40", "U+DDE6">>, <<"U+DB40", "U+DDE7">>, <<"U+DB40", "U+DDE8">>,
     <<"U+DB40", "U+DDE9">>, <<"U+DB40", "U+DDEA">>, <<"U+DB40", "U+DDEB">>,
     <<"U+DB40", "U+DDEC">>, <<"U+DB40", "U+DDED">>, <<"U+DB40", "U+DDEE">>,
     <<"U+DB40", "U+DDEF">>}

\* the cased letters that search stops at
CasedLetter ==
    {<<"A">>, <<"B">>, <<"C">>, <<"D">>, <<"E">>, <<"F">>, <<"G">>, <<"H">>,
     <<"I">>, <<"J">>, <<"K">>, <<"L">>, <<"M">>, <<"N">>, <<"O">>, <<"P">>,
     <<"Q">>, <<"R">>, <<"S">>, <<"T">>, <<"U">>, <<"V">>, <<"W">>, <<"X">>,
     <<"Y">>, <<"Z">>, <<"a">>, <<"b">>, <<"c">>, <<"d">>, <<"e">>, <<"f">>,
     <<"g">>, <<"h">>, <<"i">>, <<"j">>, <<"k">>, <<"l">>, <<"m">>, <<"n">>,
     <<"o">>, <<"p">>, <<"q">>, <<"r">>, <<"s">>, <<"t">>, <<"u">>, <<"v">>,
     <<"w">>, <<"x">>, <<"y">>, <<"z">>, <<"U+00AA">>, <<"U+00B5">>,
     <<"U+00BA">>, <<"U+00C0">>, <<"U+00C1">>, <<"U+00C2">>, <<"U+00C3">>,
     <<"U+00C4">>, <<"U+00C5">>, <<"U+00C6">>, <<"U+00C7">>, <<"U+00C8">>,
     <<"U+00C9">>, <<"U+00CA">>, <<"U+00CB">>, <<"U+00CC">>, <<"U+00CD">>,
     <<"U+00CE">>, <<"U+00CF">>, <<"U+00D0">>, <<"U+00D1">>, <<"U+00D2">>,
     <<"U+00D3">>, <<"U+00D4">>, <<"U+00D5">>, <<"U+00D6">>, <<"U+00D8">>,
     <<"U+00D9">>, <<"U+00DA">>, <<"U+00DB">>, <<"U+00DC">>, <<"U+00DD">>,
     <<"U+00DE">>, <<"U+00DF">>, <<"U+00E0">>, <<"U+00E1">>, <<"U+00E2">>,
     <<"U+00E3">>, <<"U+00E4">>, <<"U+00E5">>, <<"U+00E6">>, <<"U+00E7">>,
     <<"U+00E8">>, <<"U+00E9">>, <<"U+00EA">>, <<"U+00EB">>, <<"U+00EC">>,
     <<"U+00ED">>, <<"U+00EE">>, <<"U+00EF">>, <<"U+00F0">>, <<"U+00F1">>,
     <<"U+00F2">>, <<"U+00F3">>, <<"U+00F4">>, <<"U+00F5">>, <<"U+00F6">>,
     <<"U+00F8">>, <<"U+00F9">>, <<"U+00FA">>, <<"U+00FB">>, <<"U+00FC">>,
     <<"U+00FD">>, <<"U+00FE">>, <<"U+00FF">>, <<"U+0100">>, <<"U+0101">>,
     <<"U+0102">>, <<"U+0103">>, <<"U+0104">>, <<"U+0105">>, <<"U+0106">>,
     <<"U+0107">>, <<"U+0108">>, <<"U+0109">>, <<"U+010A">>, <<"U+010B">>,
     <<"U+010C">>, <<"U+010D">>, <<"U+010E">>, <<"U+010F">>, <<"U+0110">>,
     <<"U+0111">>, <<"U+0112">>, <<"U+0113">>, <<"U+0114">>, <<"U+0115">>,
     <<"U+0116">>, <<"U+0117">>, <<"U+0118">>, <<"U+0119">>, <<"U+011A">>,
     <<"U+011B">>, <<"U+011C">>, <<"U+011D">>, <<"U+011E">>, <<"U+011F">>,
     <<"U+0120">>, <<"U+0121">>, <<"U+0122">>, <<"U+0123">>, <<"U+0124">>,
     <<"U+0125">>, <<"U+0126">>, <<"U+0127">>, <<"U+0128">>, <<"U+0129">>,
     <<"U+012A">>, <<"U+012B">>, <<"U+012C">>, <<"U+012D">>, <<"U+012E">>,
     <<"U+012F">>, <<"U+0130">>, <<"U+0131">>, <<"U+0132">>, <<"U+0133">>,
     <<"U+0134">>, <<"U+0135">>, <<"U+0136">>, <<"U+0137">>, <<"U+0138">>,
     <<"U+0139">>, <<"U+013A">>, <<"U+013B">>, <<"U+013C">>, <<"U+013D">>,
     <<"U+013E">>, <<"U+013F">>, <<"U+0140">>, <<"U+0141">>, <<"U+0142">>,
     <<"U+0143">>, <<"U+0144">>, <<"U+0145">>, <<"U+0146">>, <<"U+0147">>,
     <<"U+0148">>, <<"U+0149">>, <<"U+014A">>, <<"U+014B">>, <<"U+014C">>,
     <<"U+014D">>, <<"U+014E">>, <<"U+014F">>, <<"U+0150">>, <<"U+0151">>,
     <<"U+0152">>, <<"U+0153">>, <<"U+0154">>, <<"U+0155">>, <<"U+0156">>,
     <<"U+0157">>, <<"U+0158">>, <<"U+0159">>, <<"U+015A">>, <<"U+015B">>,
     <<"U+015C">>, <<"U+015D">>, <<"U+015E">>, <<"U+015F">>, <<"U+0160">>,
     <<"U+0161">>, <<"U+0162">>, <<"U+0163">>, <<"U+0164">>, <<"U+0165">>,
     <<"U+0166">>, <<"U+0167">>, <<"U+0168">>, <<"U+0169">>, <<"U+016A">>,
     <<"U+016B">>, <<"U+016C">>, <<"U+016D">>, <<"U+016E">>, <<"U+016F">>,
     <<"U+0170">>, <<"U+0171">>, <<"U+0172">>, <<"U+0173">>, <<"U+0174">>,
     <<"U+0175">>, <<"U+0176">>, <<"U+0177">>, <<"U+0178">>, <<"U+0179">>,
     <<"U+017A">>, <<"U+017B">>, <<"U+017C">>, <<"U+017D">>, <<"U+017E">>,
     <<"U+017F">>, <<"U+0180">>, <<"U+0181">>, <<"U+0182">>, <<"U+0183">>,
     <<"U+0184">>, <<"U+0185">>, <<"U+0186">>, <<"U+0187">>, <<"U+0188">>,
     <<"U+0189">>, <<"U+018A">>, <<"U+018B">>, <<"U+018C">>, <<"U+018D">>,
     <<"U+018E">>, <<"U+018F">>, <<"U+0190">>, <<"U+0191">>, <<"U+0192">>,
     <<"U+0193">>, <<"U+0194">>, <<"U+0195">>, <<"U+0196">>, <<"U+0197">>,
     <<"U+0198">>, <<"U+0199">>, <<"U+019A">>, <<"U+019B">>, <<"U+019C">>,
     <<"U+019D">>, <<"U+019E">>, <<"U+019F">>, <<"U+01A0">>, <<"U+01A1">>,
     <<"U+01A2">>, <<"U+01A3">>, <<"U+01A4">>, <<"U+01A5">>, <<"U+01A6">>,
     <<"U+01A7">>, <<"U+01A8">>, <<"U+01A9">>, <<"U+01AA">>, <<"U+01AB">>,
     <<"U+01AC">>, <<"U+01AD">>, <<"U+01AE">>, <<"U+01AF">>, <<"U+01B0">>,
     <<"U+01B1">>, <<"U+01B2">>, <<"U+01B3">>, <<"U+01B4">>, <<"U+01B5">>,
     <<"U+01B6">>, <<"U+01B7">>, <<"U+01B8">>, <<"U+01B9">>, <<"U+01BA">>,
     <<"U+01BC">>, <<"U+01BD">>, <<"U+01BE">>, <<"U+01BF">>, <<"U+01C4">>,
     <<"U+01C5">>, <<"U+01C6">>, <<"U+01C7">>, <<"U+01C8">>, <<"U+01C9">>,
     <<"U+01CA">>, <<"U+01CB">>, <<"U+01CC">>, <<"U+01CD">>, <<"U+01CE">>,
     <<"U+01CF">>, <<"U+01D0">>, <<"U+01D1">>, <<"U+01D2">>, <<"U+01D3">>,
     <<"U+01D4">>, <<"U+01D5">>, <<"U+01D6">>, <<"U+01D7">>, <<"U+01D8">>,
     <<"U+01D9">>, <<"U+01DA">>, <<"U+01DB">>, <<"U+01DC">>, <<"U+01DD">>,
     <<"U+01DE">>, <<"U+01DF">>, <<"U+01E0">>, <<"U+01E1">>, <<"U+01E2">>,
     <<"U+01E3">>, <<"U+01E4">>, <<"U+01E5">>, <<"U+01E6">>, <<"U+01E7">>,
     <<"U+01E8">>, <<"U+01E9">>, <<"U+01EA">>, <<"U+01EB">>, <<"U+01EC">>,
     <<"U+01ED">>, <<"U+01EE">>, <<"U+01EF">>, <<"U+01F0">>, <<"U+01F1">>,
     <<"U+01F2">>, <<"U+01F3">>, <<"U+01F4">>, <<"U+01F5">>, <<"U+01F6">>,
     <<"U+01F7">>, <<"U+01F8">>, <<"U+01F9">>, <<"U+01FA">>, <<"U+01FB">>,
     <<"U+01FC">>, <<"U+01FD">>, <<"U+01FE">>, <<"U+01FF">>, <<"U+0200">>,
     <<"U+0201">>, <<"U+0202">>, <<"U+0203">>, <<"U+0204">>, <<"U+0205">>,
     <<"U+0206">>, <<"U+0207">>, <<"U+0208">>, <<"U+0209">>, <<"U+020A">>,
     <<"U+020B">>, <<"U+020C">>, <<"U+020D">>, <<"U+020E">>, <<"U+020F">>,
     <<"U+0210">>, <<"U+0211">>, <<"U+0212">>, <<"U+0213">>, <<"U+0214">>,
     <<"U+0215">>, <<"U+0216">>, <<"U+0217">>, <<"U+0218">>, <<"U+0219">>,
     <<"U+021A">>, <<"U+021B">>, <<"U+021C">>, <<"U+021D">>, <<"U+021E">>,
     <<"U+021F">>, <<"U+0220">>, <<"U+0221">>, <<"U+0222">>, <<"U+0223">>,
     <<"U+0224">>, <<"U+0225">>, <<"U+0226">>, <<"U+0227">>, <<"U+0228">>,
     <<"U+0229">>, <<"U+022A">>, <<"U+022B">>, <<"U+022C">>, <<"U+022D">>,
     <<"U+022E">>, <<"U+022F">>, <<"U+0230">>, <<"U+0231">>, <<"U+0232">>,
     <<"U+0233">>, <<"U+0234">>, <<"U+0235">>, <<"U+0236">>, <<"U+0237">>,
     <<"U+0238">>, <<"U+0239">>, <<"U+023A">>, <<"U+023B">>, <<"U+023C">>,
     <<"U+023D">>, <<"U+023E">>, <<"U+023F">>, <<"U+0240">>, <<"U+0241">>,
     <<"U+0242">>, <<"U+0243">>, <<"U+0244">>, <<"U+0245">>, <<"U+0246">>,
     <<"U+0247">>, <<"U+0248">>, <<"U+0249">>, <<"U+024A">>, <<"U+024B">>,
     <<"U+024C">>, <<"U+024D">>, <<"U+024E">>, <<"U+024F">>, <<"U+0250">>,
     <<"U+0251">>, <<"U+0252">>, <<"U+0253">>, <<"U+0254">>, <<"U+0255">>,
     <<"U+0256">>, <<"U+0257">>, <<"U+0258">>, <<"U+0259">>, <<"U+025A">>,
     <<"U+025B">>, <<"U+025C">>, <<"U+025D">>, <<"U+025E">>, <<"U+025F">>,
     <<"U+0260">>, <<"U+0261">>, <<"U+0262">>, <<"U+0263">>, <<"U+0264">>,
     <<"U+0265">>, <<"U+0266">>, <<"U+0267">>, <<"U+0268">>, <<"U+0269">>,
     <<"U+026A">>, <<"U+026B">>, <<"U+026C">>, <<"U+026D">>, <<"U+026E">>,
     <<"U+026F">>, <<"U+0270">>, <<"U+0271">>, <<"U+0272">>, <<"U+0273">>,
     <<"U+0274">>, <<"U+0275">>, <<"U+0276">>, <<"U+0277">>, <<"U+0278">>,
     <<"U+0279">>, <<"U+027A">>, <<"U+027B">>, <<"U+027C">>, <<"U+027D">>,
     <<"U+027E">>, <<"U+027F">>, <<"U+0280">>, <<"U+0281">>, <<"U+0282">>,
     <<"U+0283">>, <<"U+0284">>, <<"U+0285">>, <<"U+0286">>, <<"U+0287">>,
     <<"U+0288">>, <<"U+0289">>, <<"U+028A">>, <<"U+028B">>, <<"U+028C">>,
     <<"U+028D">>, <<"U+028E">>, <<"U+028F">>, <<"U+0290">>, <<"U+0291">>,
     <<"U+0292">>, <<"U+0293">>, <<"U+0296">>, <<"U+0297">>, <<"U+0298">>,
     <<"U+0299">>, <<"U+029A">>, <<"U+029B">>, <<"U+029C">>, <<"U+029D">>,
     <<"U+029E">>, <<"U+029F">>, <<"U+02A0">>, <<"U+02A1">>, <<"U+02A2">>,
     <<"U+02A3">>, <<"U+02A4">>, <<"U+02A5">>, <<"U+02A6">>, <<"U+02A7">>,
     <<"U+02A8">>, <<"U+02A9">>, <<"U+02AA">>, <<"U+02AB">>, <<"U+02AC">>,
     <<"U+02AD">>, <<"U+02AE">>, <<"U+02AF">>, <<"U+0370">>, <<"U+0371">>,
     <<"U+0372">>, <<"U+0373">>, <<"U+0376">>, <<"U+0377">>, <<"U+037B">>,
     <<"U+037C">>, <<"U+037D">>, <<"U+037F">>, <<"U+0386">>, <<"U+0388">>,
     <<"U+0389">>, <<"U+038A">>, <<"U+038C">>, <<"U+038E">>, <<"U+038F">>,
     <<"U+0390">>, <<"U+0391">>, <<"U+0392">>, <<"U+0393">>, <<"U+0394">>,
     <<"U+0395">>, <<"U+0396">>, <<"U+0397">>, <<"U+0398">>, <<"U+0399">>,
     <<"U+039A">>, <<"U+039B">>, <<"U+039C">>, <<"U+039D">>, <<"U+039E">>,
     <<"U+039F">>, <<"U+03A0">>, <<"U+03A1">>, <<"U+03A3">>, <<"U+03A4">>,
     <<"U+03A5">>, <<"U+03A6">>, <<"U+03A7">>, <<"U+03A8">>, <<"U+03A9">>,
     <<"U+03AA">>, <<"U+03AB">>, <<"U+03AC">>, <<"U+03AD">>, <<"U+03AE">>,
     <<"U+03AF">>, <<"U+03B0">>, <<"U+03B1">>, <<"U+03B2">>, <<"U+03B3">>,
     <<"U+03B4">>, <<"U+03B5">>, <<"U+03B6">>, <<"U+03B7">>, <<"U+03B8">>,
     <<"U+03B9">>, <<"U+03BA">>, <<"U+03BB">>, <<"U+03BC">>, <<"U+03BD">>,
     <<"U+03BE">>, <<"U+03BF">>, <<"U+03C0">>, <<"U+03C1">>, <<"U+03C2">>,
     <<"U+03C3">>, <<"U+03C4">>, <<"U+03C5">>, <<"U+03C6">>, <<"U+03C7">>,
     <<"U+03C8">>, <<"U+03C9">>, <<"U+03CA">>, <<"U+03CB">>, <<"U+03CC">>,
     <<"U+03CD">>, <<"U+03CE">>, <<"U+03CF">>, <<"U+03D0">>, <<"U+03D1">>,
     <<"U+03D2">>, <<"U+03D3">>, <<"U+03D4">>, <<"U+03D5">>, <<"U+03D6">>,
     <<"U+03D7">>, <<"U+03D8">>, <<"U+03D9">>, <<"U+03DA">>, <<"U+03DB">>,
     <<"U+03DC">>, <<"U+03DD">>, <<"U+03DE">>, <<"U+03DF">>, <<"U+03E0">>,
     <<"U+03E1">>, <<"U+03E2">>, <<"U+03E3">>, <<"U+03E4">>, <<"U+03E5">>,
     <<"U+03E6">>, <<"U+03E7">>, <<"U+03E8">>, <<"U+03E9">>, <<"U+03EA">>,
     <<"U+03EB">>, <<"U+03EC">>, <<"U+03ED">>, <<"U+03EE">>, <<"U+03EF">>,
     <<"U+03F0">>, <<"U+03F1">>, <<"U+03F2">>, <<"U+03F3">>, <<"U+03F4">>,
     <<"U+03F5">>, <<"U+03F7">>, <<"U+03F8">>, <<"U+03F9">>, <<"U+03FA">>,
     <<"U+03FB">>, <<"U+03FC">>, <<"U+03FD">>, <<"U+03FE">>, <<"U+03FF">>,
     <<"U+0400">>, <<"U+0401">>, <<"U+0402">>, <<"U+0403">>, <<"U+0404">>,
     <<"U+0405">>, <<"U+0406">>, <<"U+0407">>, <<"U+0408">>, <<"U+0409">>,
     <<"U+040A">>, <<"U+040B">>, <<"U+040C">>, <<"U+040D">>, <<"U+040E">>,
     <<"U+040F">>, <<"U+0410">>, <<"U+0411">>, <<"U+0412">>, <<"U+0413">>,
     <<"U+0414">>, <<"U+0415">>, <<"U+0416">>, <<"U+0417">>, <<"U+0418">>,
     <<"U+0419">>, <<"U+041A">>, <<"U+041B">>, <<"U+041C">>, <<"U+041D">>,
     <<"U+041E">>, <<"U+041F">>, <<"U+0420">>, <<"U+0421">>, <<"U+0422">>,
     <<"U+0423">>, <<"U+0424">>, <<"U+0425">>, <<"U+0426">>, <<"U+0427">>,
     <<"U+0428">>, <<"U+0429">>, <<"U+042A">>, <<"U+042B">>, <<"U+042C">>,
     <<"U+042D">>, <<"U+042E">>, <<"U+042F">>, <<"U+0430">>, <<"U+0431">>,
     <<"U+0432">>, <<"U+0433">>, <<"U+0434">>, <<"U+0435">>, <<"U+0436">>,
     <<"U+0437">>, <<"U+0438">>, <<"U+0439">>, <<"U+043A">>, <<"U+043B">>,
     <<"U+043C">>, <<"U+043D">>, <<"U+043E">>, <<"U+043F">>, <<"U+0440">>,
     <<"U+0441">>, <<"U+0442">>, <<"U+0443">>, <<"U+0444">>, <<"U+0445">>,
     <<"U+0446">>, <<"U+0447">>, <<"U+0448">>, <<"U+0449">>, <<"U+044A">>,
     <<"U+044B">>, <<"U+044C">>, <<"U+044D">>, <<"U+044E">>, <<"U+044F">>,
     <<"U+0450">>, <<"U+0451">>, <<"U+0452">>, <<"U+0453">>, <<"U+0454">>,
     <<"U+0455">>, <<"U+0456">>, <<"U+0457">>, <<"U+0458">>, <<"U+0459">>,
     <<"U+045A">>, <<"U+045B">>, <<"U+045C">>, <<"U+045D">>, <<"U+045E">>,
     <<"U+045F">>, <<"U+0460">>, <<"U+0461">>, <<"U+0462">>, <<"U+0463">>,
     <<"U+0464">>, <<"U+0465">>, <<"U+0466">>, <<"U+0467">>, <<"U+0468">>,
     <<"U+0469">>, <<"U+046A">>, <<"U+046B">>, <<"U+046C">>, <<"U+046D">>,
     <<"U+046E">>, <<"U+046F">>, <<"U+0470">>, <<"U+0471">>, <<"U+0472">>,
     <<"U+0473">>, <<"U+0474">>, <<"U+0475">>, <<"U+0476">>, <<"U+0477">>,
     <<"U+0478">>, <<"U+0479">>, <<"U+047A">>, <<"U+047B">>, <<"U+047C">>,
     <<"U+047D">>, <<"U+047E">>, <<"U+047F">>, <<"U+0480">>, <<"U+0481">>,
     <<"U+048A">>, <<"U+048B">>, <<"U+048C">>, <<"U+048D">>, <<"U+048E">>,
     <<"U+048F">>, <<"U+0490">>, <<"U+0491">>, <<"U+0492">>, <<"U+0493">>,
     <<"U+0494">>, <<"U+0495">>, <<"U+0496">>, <<"U+0497">>, <<"U+0498">>,
     <<"U+0499">>, <<"U+049A">>, <<"U+049B">>, <<"U+049C">>, <<"U+049D">>,
     <<"U+049E">>, <<"U+049F">>, <<"U+04A0">>, <<"U+04A1">>, <<"U+04A2">>,
     <<"U+04A3">>, <<"U+04A4">>, <<"U+04A5">>, <<"U+04A6">>, <<"U+04A7">>,
     <<"U+04A8">>, <<"U+04A9">>, <<"U+04AA">>, <<"U+04AB">>, <<"U+04AC">>,
     <<"U+04AD">>, <<"U+04AE">>, <<"U+04AF">>, <<"U+04B0">>, <<"U+04B1">>,
     <<"U+04B2">>, <<"U+04B3">>, <<"U+04B4">>, <<"U+04B5">>, <<"U+04B6">>,
     <<"U+04B7">>, <<"U+04B8">>, <<"U+04B9">>, <<"U+04BA">>, <<"U+04BB">>,
     <<"U+04BC">>, <<"U+04BD">>, <<"U+04BE">>, <<"U+04BF">>, <<"U+04C0">>,
     <<"U+04C1">>, <<"U+04C2">>, <<"U+04C3">>, <<"U+04C4">>, <<"U+04C5">>,
     <<"U+04C6">>, <<"U+04C7">>, <<"U+04C8">>, <<"U+04C9">>, <<"U+04CA">>,
     <<"U+04CB">>, <<"U+04CC">>, <<"U+04CD">>, <<"U+04CE">>, <<"U+04CF">>,
     <<"U+04D0">>, <<"U+04D1">>, <<"U+04D2">>, <<"U+04D3">>, <<"U+04D4">>,
     <<"U+04D5">>, <<"U+04D6">>, <<"U+04D7">>, <<"U+04D8">>, <<"U+04D9">>,
     <<"U+04DA">>, <<"U+04DB">>, <<"U+04DC">>, <<"U+04DD">>, <<"U+04DE">>,
     <<"U+04DF">>, <<"U+04E0">>, <<"U+04E1">>, <<"U+04E2">>, <<"U+04E3">>,
     <<"U+04E4">>, <<"U+04E5">>, <<"U+04E6">>, <<"U+04E7">>, <<"U+04E8">>,
     <<"U+04E9">>, <<"U+04EA">>, <<"U+04EB">>, <<"U+04EC">>, <<"U+04ED">>,
     <<"U+04EE">>, <<"U+04EF">>, <<"U+04F0">>, <<"U+04F1">>, <<"U+04F2">>,
     <<"U+04F3">>, <<"U+04F4">>, <<"U+04F5">>, <<"U+04F6">>, <<"U+04F7">>,
     <<"U+04F8">>, <<"U+04F9">>, <<"U+04FA">>, <<"U+04FB">>, <<"U+04FC">>,
     <<"U+04FD">>, <<"U+04FE">>, <<"U+04FF">>, <<"U+0500">>, <<"U+0501">>,
     <<"U+0502">>, <<"U+0503">>, <<"U+0504">>, <<"U+0505">>, <<"U+0506">>,
     <<"U+0507">>, <<"U+0508">>, <<"U+0509">>, <<"U+050A">>, <<"U+050B">>,
     <<"U+050C">>, <<"U+050D">>, <<"U+050E">>, <<"U+050F">>, <<"U+0510">>,
     <<"U+0511">>, <<"U+0512">>, <<"U+0513">>, <<"U+0514">>, <<"U+0515">>,
     <<"U+0516">>, <<"U+0517">>, <<"U+0518">>, <<"U+0519">>, <<"U+051A">>,
     <<"U+051B">>, <<"U+051C">>, <<"U+051D">>, <<"U+051E">>, <<"U+051F">>,
     <<"U+0520">>, <<"U+0521">>, <<"U+0522">>, <<"U+0523">>, <<"U+0524">>,
     <<"U+0525">>, <<"U+0526">>, <<"U+0527">>, <<"U+0528">>, <<"U+0529">>,
     <<"U+052A">>, <<"U+052B">>, <<"U+052C">>, <<"U+052D">>, <<"U+052E">>,
     <<"U+052F">>, <<"U+0531">>, <<"U+0532">>, <<"U+0533">>, <<"U+0534">>,
     <<"U+0535">>, <<"U+0536">>, <<"U+0537">>, <<"U+0538">>, <<"U+0539">>,
     <<"U+053A">>, <<"U+053B">>, <<"U+053C">>, <<"U+053D">>, <<"U+053E">>,
     <<"U+053F">>, <<"U+0540">>, <<"U+0541">>, <<"U+0542">>, <<"U+0543">>,
     <<"U+0544">>, <<"U+0545">>, <<"U+0546">>, <<"U+0547">>, <<"U+0548">>,
     <<"U+0549">>, <<"U+054A">>, <<"U+054B">>, <<"U+054C">>, <<"U+054D">>,
     <<"U+054E">>, <<"U+054F">>, <<"U+0550">>, <<"U+0551">>, <<"U+0552">>,
     <<"U+0553">>, <<"U+0554">>, <<"U+0555">>, <<"U+0556">>, <<"U+0560">>,
     <<"U+0561">>, <<"U+0562">>, <<"U+0563">>, <<"U+0564">>, <<"U+0565">>,
     <<"U+0566">>, <<"U+0567">>, <<"U+0568">>, <<"U+0569">>, <<"U+056A">>,
     <<"U+056B">>, <<"U+056C">>, <<"U+056D">>, <<"U+056E">>, <<"U+056F">>,
     <<"U+0570">>, <<"U+0571">>, <<"U+0572">>, <<"U+0573">>, <<"U+0574">>,
     <<"U+0575">>, <<"U+0576">>, <<"U+0577">>, <<"U+0578">>, <<"U+0579">>,
     <<"U+057A">>, <<"U+057B">>, <<"U+057C">>, <<"U+057D">>, <<"U+057E">>,
     <<"U+057F">>, <<"U+0580">>, <<"U+0581">>, <<"U+0582">>, <<"U+0583">>,
     <<"U+0584">>, <<"U+0585">>, <<"U+0586">>, <<"U+0587">>, <<"U+0588">>,
     <<"U+10A0">>, <<"U+10A1">>, <<"U+10A2">>, <<"U+10A3">>, <<"U+10A4">>,
     <<"U+10A5">>, <<"U+10A6">>, <<"U+10A7">>, <<"U+10A8">>, <<"U+10A9">>,
     <<"U+10AA">>, <<"U+10AB">>, <<"U+10AC">>, <<"U+10AD">>, <<"U+10AE">>,
     <<"U+10AF">>, <<"U+10B0">>, <<"U+10B1">>, <<"U+10B2">>, <<"U+10B3">>,
     <<"U+10B4">>, <<"U+10B5">>, <<"U+10B6">>, <<"U+10B7">>, <<"U+10B8">>,
     <<"U+10B9">>, <<"U+10BA">>, <<"U+10BB">>, <<"U+10BC">>, <<"U+10BD">>,
     <<"U+10BE">>, <<"U+10BF">>, <<"U+10C0">>, <<"U+10C1">>, <<"U+10C2">>,
     <<"U+10C3">>, <<"U+10C4">>, <<"U+10C5">>, <<"U+10C7">>, <<"U+10CD">>,
     <<"U+10D0">>, <<"U+10D1">>, <<"U+10D2">>, <<"U+10D3">>, <<"U+10D4">>,
     <<"U+10D5">>, <<"U+10D6">>, <<"U+10D7">>, <<"U+10D8">>, <<"U+10D9">>,
     <<"U+10DA">>, <<"U+10DB">>, <<"U+10DC">>, <<"U+10DD">>, <<"U+10DE">>,
     <<"U+10DF">>, <<"U+10E0">>, <<"U+10E1">>, <<"U+10E2">>, <<"U+10E3">>,
     <<"U+10E4">>, <<"U+10E5">>, <<"U+10E6">>, <<"U+10E7">>, <<"U+10E8">>,
     <<"U+10E9">>, <<"U+10EA">>, <<"U+10EB">>, <<"U+10EC">>, <<"U+10ED">>,
     <<"U+10EE">>, <<"U+10EF">>, <<"U+10F0">>, <<"U+10F1">>, <<"U+10F2">>,
     <<"U+10F3">>, <<"U+10F4">>, <<"U+10F5">>, <<"U+10F6">>, <<"U+10F7">>,
     <<"U+10F8">>, <<"U+10F9">>, <<"U+10FA">>, <<"U+10FD">>, <<"U+10FE">>,
     <<"U+10FF">>, <<"U+13A0">>, <<"U+13A1">>, <<"U+13A2">>, <<"U+13A3">>,
     <<"U+13A4">>, <<"U+13A5">>, <<"U+13A6">>, <<"U+13A7">>, <<"U+13A8">>,
     <<"U+13A9">>, <<"U+13AA">>, <<"U+13AB">>, <<"U+13AC">>, <<"U+13AD">>,
     <<"U+13AE">>, <<"U+13AF">>, <<"U+13B0">>, <<"U+13B1">>, <<"U+13B2">>,
     <<"U+13B3">>, <<"U+13B4">>, <<"U+13B5">>, <<"U+13B6">>, <<"U+13B7">>,
     <<"U+13B8">>, <<"U+13B9">>, <<"U+13BA">>, <<"U+13BB">>, <<"U+13BC">>,
     <<"U+13BD">>, <<"U+13BE">>, <<"U+13BF">>, <<"U+13C0">>, <<"U+13C1">>,
     <<"U+13C2">>, <<"U+13C3">>, <<"U+13C4">>, <<"U+13C5">>, <<"U+13C6">>,
     <<"U+13C7">>, <<"U+13C8">>, <<"U+13C9">>, <<"U+13CA">>, <<"U+13CB">>,
     <<"U+13CC">>, <<"U+13CD">>, <<"U+13CE">>, <<"U+13CF">>, <<"U+13D0">>,
     <<"U+13D1">>, <<"U+13D2">>, <<"U+13D3">>, <<"U+13D4">>, <<"U+13D5">>,
     <<"U+13D6">>, <<"U+13D7">>, <<"U+13D8">>, <<"U+13D9">>, <<"U+13DA">>,
     <<"U+13DB">>, <<"U+13DC">>, <<"U+13DD">>, <<"U+13DE">>, <<"U+13DF">>,
     <<"U+13E0">>, <<"U+13E1">>, <<"U+13E2">>, <<"U+13E3">>, <<"U+13E4">>,
     <<"U+13E5">>, <<"U+13E6">>, <<"U+13E7">>, <<"U+13E8">>, <<"U+13E9">>,
     <<"U+13EA">>, <<"U+13EB">>, <<"U+13EC">>, <<"U+13ED">>, <<"U+13EE">>,
     <<"U+13EF">>, <<"U+13F0">>, <<"U+13F1">>, <<"U+13F2">>, <<"U+13F3">>,
     <<"U+13F4">>, <<"U+13F5">>, <<"U+13F8">>, <<"U+13F9">>, <<"U+13FA">>,
     <<"U+13FB">>, <<"U+13FC">>, <<"U+13FD">>, <<"U+1C80">>, <<"U+1C81">>,
     <<"U+1C82">>, <<"U+1C83">>, <<"U+1C84">>, <<"U+1C85">>, <<"U+1C86">>,
     <<"U+1C87">>, <<"U+1C88">>, <<"U+1C89">>, <<"U+1C8A">>, <<"U+1C90">>,
     <<"U+1C91">>, <<"U+1C92">>, <<"U+1C93">>, <<"U+1C94">>, <<"U+1C95">>,
     <<"U+1C96">>, <<"U+1C97">>, <<"U+1C98">>, <<"U+1C99">>, <<"U+1C9A">>,
     <<"U+1C9B">>, <<"U+1C9C">>, <<"U+1C9D">>, <<"U+1C9E">>, <<"U+1C9F">>,
     <<"U+1CA0">>, <<"U+1CA1">>, <<"U+1CA2">>, <<"U+1CA3">>, <<"U+1CA4">>,
     <<"U+1CA5">>, <<"U+1CA6">>, <<"U+1CA7">>, <<"U+1CA8">>, <<"U+1CA9">>,
     <<"U+1CAA">>, <<"U+1CAB">>, <<"U+1CAC">>, <<"U+1CAD">>, <<"U+1CAE">>,
     <<"U+1CAF">>, <<"U+1CB0">>, <<"U+1CB1">>, <<"U+1CB2">>, <<"U+1CB3">>,
     <<"U+1CB4">>, <<"U+1CB5">>, <<"U+1CB6">>, <<"U+1CB7">>, <<"U+1CB8">>,
     <<"U+1CB9">>, <<"U+1CBA">>, <<"U+1CBD">>, <<"U+1CBE">>, <<"U+1CBF">>,
     <<"U+1D00">>, <<"U+1D01">>, <<"U+1D02">>, <<"U+1D03">>, <<"U+1D04">>,
     <<"U+1D05">>, <<"U+1D06">>, <<"U+1D07">>, <<"U+1D08">>, <<"U+1D09">>,
     <<"U+1D0A">>, <<"U+1D0B">>, <<"U+1D0C">>, <<"U+1D0D">>, <<"U+1D0E">>,
     <<"U+1D0F">>, <<"U+1D10">>, <<"U+1D11">>, <<"U+1D12">>, <<"U+1D13">>,
     <<"U+1D14">>, <<"U+1D15">>, <<"U+1D16">>, <<"U+1D17">>, <<"U+1D18">>,
     <<"U+1D19">>, <<"U+1D1A">>, <<"U+1D1B">>, <<"U+1D1C">>, <<"U+1D1D">>,
     <<"U+1D1E">>, <<"U+1D1F">>, <<"U+1D20">>, <<"U+1D21">>, <<"U+1D22">>,
     <<"U+1D23">>, <<"U+1D24">>, <<"U+1D25">>, <<"U+1D26">>, <<"U+1D27">>,
     <<"U+1D28">>, <<"U+1D29">>, <<"U+1D2A">>, <<"U+1D2B">>, <<"U+1D6B">>,
     <<"U+1D6C">>, <<"U+1D6D">>, <<"U+1D6E">>, <<"U+1D6F">>, <<"U+1D70">>,
     <<"U+1D71">>, <<"U+1D72">>, <<"U+1D73">>, <<"U+1D74">>, <<"U+1D75">>,
     <<"U+1D76">>, <<"U+1D77">>, <<"U+1D79">>, <<"U+1D7A">>, <<"U+1D7B">>,
     <<"U+1D7C">>, <<"U+1D7D">>, <<"U+1D7E">>, <<"U+1D7F">>, <<"U+1D80">>,
     <<"U+1D81">>, <<"U+1D82">>, <<"U+1D83">>, <<"U+1D84">>, <<"U+1D85">>,
     <<"U+1D86">>, <<"U+1D87">>, <<"U+1D88">>, <<"U+1D89">>, <<"U+1D8A">>,
     <<"U+1D8B">>, <<"U+1D8C">>, <<"U+1D8D">>, <<"U+1D8E">>, <<"U+1D8F">>,
     <<"U+1D90">>, <<"U+1D91">>, <<"U+1D92">>, <<"U+1D93">>, <<"U+1D94">>,
     <<"U+1D95">>, <<"U+1D96">>, <<"U+1D97">>, <<"U+1D98">>, <<"U+1D99">>,
     <<"U+1D9A">>, <<"U+1E00">>, <<"U+1E01">>, <<"U+1E02">>, <<"U+1E03">>,
     <<"U+1E04">>, <<"U+1E05">>, <<"U+1E06">>, <<"U+1E07">>, <<"U+1E08">>,
     <<"U+1E09">>, <<"U+1E0A">>, <<"U+1E0B">>, <<"U+1E0C">>, <<"U+1E0D">>,
     <<"U+1E0E">>, <<"U+1E0F">>, <<"U+1E10">>, <<"U+1E11">>, <<"U+1E12">>,
     <<"U+1E13">>, <<"U+1E14">>, <<"U+1E15">>, <<"U+1E16">>, <<"U+1E17">>,
     <<"U+1E18">>, <<"U+1E19">>, <<"U+1E1A">>, <<"U+1E1B">>, <<"U+1E1C">>,
     <<"U+1E1D">>, <<"U+1E1E">>, <<"U+1E1F">>, <<"U+1E20">>, <<"U+1E21">>,
     <<"U+1E22">>, <<"U+1E23">>, <<"U+1E24">>, <<"U+1E25">>, <<"U+1E26">>,
     <<"U+1E27">>, <<"U+1E28">>, <<"U+1E29">>, <<"U+1E2A">>, <<"U+1E2B">>,
     <<"U+1E2C">>, <<"U+1E2D">>, <<"U+1E2E">>, <<"U+1E2F">>, <<"U+1E30">>,
     <<"U+1E31">>, <<"U+1E32">>, <<"U+1E33">>, <<"U+1E34">>, <<"U+1E35">>,
     <<"U+1E36">>, <<"U+1E37">>, <<"U+1E38">>, <<"U+1E39">>, <<"U+1E3A">>,
     <<"U+1E3B">>, <<"U+1E3C">>, <<"U+1E3D">>, <<"U+1E3E">>, <<"U+1E3F">>,
     <<"U+1E40">>, <<"U+1E41">>, <<"U+1E42">>, <<"U+1E43">>, <<"U+1E44">>,
     <<"U+1E45">>, <<"U+1E46">>, <<"U+1E47">>, <<"U+1E48">>, <<"U+1E49">>,
     <<"U+1E4A">>, <<"U+1E4B">>, <<"U+1E4C">>, <<"U+1E4D">>, <<"U+1E4E">>,
     <<"U+1E4F">>, <<"U+1E50">>, <<"U+1E51">>, <<"U+1E52">>, <<"U+1E53">>,
     <<"U+1E54">>, <<"U+1E55">>, <<"U+1E56">>, <<"U+1E57">>, <<"U+1E58">>,
     <<"U+1E59">>, <<"U+1E5A">>, <<"U+1E5B">>, <<"U+1E5C">>, <<"U+1E5D">>,
     <<"U+1E5E">>, <<"U+1E5F">>, <<"U+1E60">>, <<"U+1E61">>, <<"U+1E62">>,
     <<"U+1E63">>, <<"U+1E64">>, <<"U+1E65">>, <<"U+1E66">>, <<"U+1E67">>,
     <<"U+1E68">>, <<"U+1E69">>, <<"U+1E6A">>, <<"U+1E6B">>, <<"U+1E6C">>,
     <<"U+1E6D">>, <<"U+1E6E">>, <<"U+1E6F">>, <<"U+1E70">>, <<"U+1E71">>,
     <<"U+1E72">>, <<"U+1E73">>, <<"U+1E74">>, <<"U+1E75">>, <<"U+1E76">>,
     <<"U+1E77">>, <<"U+1E78">>, <<"U+1E79">>, <<"U+1E7A">>, <<"U+1E7B">>,
     <<"U+1E7C">>, <<"U+1E7D">>, <<"U+1E7E">>, <<"U+1E7F">>, <<"U+1E80">>,
     <<"U+1E81">>, <<"U+1E82">>, <<"U+1E83">>, <<"U+1E84">>, <<"U+1E85">>,
     <<"U+1E86">>, <<"U+1E87">>, <<"U+1E88">>, <<"U+1E89">>, <<"U+1E8A">>,
     <<"U+1E8B">>, <<"U+1E8C">>, <<"U+1E8D">>, <<"U+1E8E">>, <<"U+1E8F">>,
     <<"U+1E90">>, <<"U+1E91">>, <<"U+1E92">>, <<"U+1E93">>, <<"U+1E94">>,
     <<"U+1E95">>, <<"U+1E96">>, <<"U+1E97">>, <<"U+1E98">>, <<"U+1E99">>,
     <<"U+1E9A">>, <<"U+1E9B">>, <<"U+1E9C">>, <<"U+1E9D">>, <<"U+1E9E">>,
     <<"U+1E9F">>, <<"U+1EA0">>, <<"U+1EA1">>, <<"U+1EA2">>, <<"U+1EA3">>,
     <<"U+1EA4">>, <<"U+1EA5">>, <<"U+1EA6">>, <<"U+1EA7">>, <<"U+1EA8">>,
     <<"U+1EA9">>, <<"U+1EAA">>, <<"U+1EAB">>, <<"U+1EAC">>, <<"U+1EAD">>,
     <<"U+1EAE">>, <<"U+1EAF">>, <<"U+1EB0">>, <<"U+1EB1">>, <<"U+1EB2">>,
     <<"U+1EB3">>, <<"U+1EB4">>, <<"U+1EB5">>, <<"U+1EB6">>, <<"U+1EB7">>,
     <<"U+1EB8">>, <<"U+1EB9">>, <<"U+1EBA">>, <<"U+1EBB">>, <<"U+1EBC">>,
     <<"U+1EBD">>, <<"U+1EBE">>, <<"U+1EBF">>, <<"U+1EC0">>, <<"U+1EC1">>,
     <<"U+1EC2">>, <<"U+1EC3">>, <<"U+1EC4">>, <<"U+1EC5">>, <<"U+1EC6">>,
     <<"U+1EC7">>, <<"U+1EC8">>, <<"U+1EC9">>, <<"U+1ECA">>, <<"U+1ECB">>,
     <<"U+1ECC">>, <<"U+1ECD">>, <<"U+1ECE">>, <<"U+1ECF">>, <<"U+1ED0">>,
     <<"U+1ED1">>, <<"U+1ED2">>, <<"U+1ED3">>, <<"U+1ED4">>, <<"U+1ED5">>,
     <<"U+1ED6">>, <<"U+1ED7">>, <<"U+1ED8">>, <<"U+1ED9">>, <<"U+1EDA">>,
     <<"U+1EDB">>, <<"U+1EDC">>, <<"U+1EDD">>, <<"U+1EDE">>, <<"U+1EDF">>,
     <<"U+1EE0">>, <<"U+1EE1">>, <<"U+1EE2">>, <<"U+1EE3">>, <<"U+1EE4">>,
     <<"U+1EE5">>, <<"U+1EE6">>, <<"U+1EE7">>, <<"U+1EE8">>, <<"U+1EE9">>,
     <<"U+1EEA">>, <<"U+1EEB">>, <<"U+1EEC">>, <<"U+1EED">>, <<"U+1EEE">>,
     <<"U+1EEF">>, <<"U+1EF0">>, <<"U+1EF1">>, <<"U+1EF2">>, <<"U+1EF3">>,
     <<"U+1EF4">>, <<"U+1EF5">>, <<"U+1EF6">>, <<"U+1EF7">>, <<"U+1EF8">>,
     <<"U+1EF9">>, <<"U+1EFA">>, <<"U+1EFB">>, <<"U+1EFC">>, <<"U+1EFD">>,
     <<"U+1EFE">>, <<"U+1EFF">>, <<"U+1F00">>, <<"U+1F01">>, <<"U+1F02">>,
     <<"U+1F03">>, <<"U+1F04">>, <<"U+1F05">>, <<"U+1F06">>, <<"U+1F07">>,
     <<"U+1F08">>, <<"U+1F09">>, <<"U+1F0A">>, <<"U+1F0B">>, <<"U+1F0C">>,
     <<"U+1F0D">>, <<"U+1F0E">>, <<"U+1F0F">>, <<"U+1F10">>, <<"U+1F11">>,
     <<"U+1F12">>, <<"U+1F13">>, <<"U+1F14">>, <<"U+1F15">>, <<"U+1F18">>,
     <<"U+1F19">>, <<"U+1F1A">>, <<"U+1F1B">>, <<"U+1F1C">>, <<"U+1F1D">>,
     <<"U+1F20">>, <<"U+1F21">>, <<"U+1F22">>, <<"U+1F23">>, <<"U+1F24">>,
     <<"U+1F25">>, <<"U+1F26">>, <<"U+1F27">>, <<"U+1F28">>, <<"U+1F29">>,
     <<"U+1F2A">>, <<"U+1F2B">>, <<"U+1F2C">>, <<"U+1F2D">>, <<"U+1F2E">>,
     <<"U+1F2F">>, <<"U+1F30">>, <<"U+1F31">>, <<"U+1F32">>, <<"U+1F33">>,
     <<"U+1F34">>, <<"U+1F35">>, <<"U+1F36">>, <<"U+1F37">>, <<"U+1F38">>,
     <<"U+1F39">>, <<"U+1F3A">>, <<"U+1F3B">>, <<"U+1F3C">>, <<"U+1F3D">>,
     <<"U+1F3E">>, <<"U+1F3F">>, <<"U+1F40">>, <<"U+1F41">>, <<"U+1F42">>,
     <<"U+1F43">>, <<"U+1F44">>, <<"U+1F45">>, <<"U+1F48">>, <<"U+1F49">>,
     <<"U+1F4A">>, <<"U+1F4B">>, <<"U+1F4C">>, <<"U+1F4D">>, <<"U+1F50">>,
     <<"U+1F51">>, <<"U+1F52">>, <<"U+1F53">>, <<"U+1F54">>, <<"U+1F55">>,
     <<"U+1F56">>, <<"U+1F57">>, <<"U+1F59">>, <<"U+1F5B">>, <<"U+1F5D">>,
     <<"U+1F5F">>, <<"U+1F60">>, <<"U+1F61">>, <<"U+1F62">>, <<"U+1F63">>,
     <<"U+1F64">>, <<"U+1F65">>, <<"U+1F66">>, <<"U+1F67">>, <<"U+1F68">>,
     <<"U+1F69">>, <<"U+1F6A">>, <<"U+1F6B">>, <<"U+1F6C">>, <<"U+1F6D">>,
     <<"U+1F6E">>, <<"U+1F6F">>, <<"U+1F70">>, <<"U+1F71">>, <<"U+1F72">>,
     <<"U+1F73">>, <<"U+1F74">>, <<"U+1F75">>, <<"U+1F76">>, <<"U+1F77">>,
     <<"U+1F78">>, <<"U+1F79">>, <<"U+1F7A">>, <<"U+1F7B">>, <<"U+1F7C">>,
     <<"U+1F7D">>, <<"U+1F80">>, <<"U+1F81">>, <<"U+1F82">>, <<"U+1F83">>,
     <<"U+1F84">>, <<"U+1F85">>, <<"U+1F86">>, <<"U+1F87">>, <<"U+1F88">>,
     <<"U+1F89">>, <<"U+1F8A">>, <<"U+1F8B">>, <<"U+1F8C">>, <<"U+1F8D">>,
     <<"U+1F8E">>, <<"U+1F8F">>, <<"U+1F90">>, <<"U+1F91">>, <<"U+1F92">>,
     <<"U+1F93">>, <<"U+1F94">>, <<"U+1F95">>, <<"U+1F96">>, <<"U+1F97">>,
     <<"U+1F98">>, <<"U+1F99">>, <<"U+1F9A">>, <<"U+1F9B">>, <<"U+1F9C">>,
     <<"U+1F9D">>, <<"U+1F9E">>, <<"U+1F9F">>, <<"U+1FA0">>, <<"U+1FA1">>,
     <<"U+1FA2">>, <<"U+1FA3">>, <<"U+1FA4">>, <<"U+1FA5">>, <<"U+1FA6">>,
     <<"U+1FA7">>, <<"U+1FA8">>, <<"U+1FA9">>, <<"U+1FAA">>, <<"U+1FAB">>,
     <<"U+1FAC">>, <<"U+1FAD">>, <<"U+1FAE">>, <<"U+1FAF">>, <<"U+1FB0">>,
     <<"U+1FB1">>, <<"U+1FB2">>, <<"U+1FB3">>, <<"U+1FB4">>, <<"U+1FB6">>,
     <<"U+1FB7">>, <<"U+1FB8">>, <<"U+1FB9">>, <<"U+1FBA">>, <<"U+1FBB">>,
     <<"U+1FBC">>, <<"U+1FBE">>, <<"U+1FC2">>, <<"U+1FC3">>, <<"U+1FC4">>,
     <<"U+1FC6">>, <<"U+1FC7">>, <<"U+1FC8">>, <<"U+1FC9">>, <<"U+1FCA">>,
     <<"U+1FCB">>, <<"U+1FCC">>, <<"U+1FD0">>, <<"U+1FD1">>, <<"U+1FD2">>,
     <<"U+1FD3">>, <<"U+1FD6">>, <<"U+1FD7">>, <<"U+1FD8">>, <<"U+1FD9">>,
     <<"U+1FDA">>, <<"U+1FDB">>, <<"U+1FE0">>, <<"U+1FE1">>, <<"U+1FE2">>,
     <<"U+1FE3">>, <<"U+1FE4">>, <<"U+1FE5">>, <<"U+1FE6">>, <<"U+1FE7">>,
     <<"U+1FE8">>, <<"U+1FE9">>, <<"U+1FEA">>, <<"U+1FEB">>, <<"U+1FEC">>,
     <<"U+1FF2">>, <<"U+1FF3">>, <<"U+1FF4">>, <<"U+1FF6">>, <<"U+1FF7">>,
     <<"U+1FF8">>, <<"U+1FF9">>, <<"U+1FFA">>, <<"U+1FFB">>, <<"U+1FFC">>,
     <<"U+2102">>, <<"U+2107">>, <<"U+210A">>, <<"U+210B">>, <<"U+210C">>,
     <<"U+210D">>, <<"U+210E">>, <<"U+210F">>, <<"U+2110">>, <<"U+2111">>,
     <<"U+2112">>, <<"U+2113">>, <<"U+2115">>, <<"U+2119">>, <<"U+211A">>,
     <<"U+211B">>, <<"U+211C">>, <<"U+211D">>, <<"U+2124">>, <<"U+2126">>,
     <<"U+2128">>, <<"U+212A">>, <<"U+212B">>, <<"U+212C">>, <<"U+212D">>,
     <<"U+212F">>, <<"U+2130">>, <<"U+2131">>, <<"U+2132">>, <<"U+2133">>,
     <<"U+2134">>, <<"U+2139">>, <<"U+213C">>, <<"U+213D">>, <<"U+213E">>,
     <<"U+213F">>, <<"U+2145">>, <<"U+2146">>, <<"U+2147">>, <<"U+2148">>,
     <<"U+2149">>, <<"U+214E">>, <<"U+2160">>, <<"U+2161">>, <<"U+2162">>,
     <<"U+2163">>, <<"U+2164">>, <<"U+2165">>, <<"U+2166">>, <<"U+2167">>,
     <<"U+2168">>, <<"U+2169">>, <<"U+216A">>, <<"U+216B">>, <<"U+216C">>,
     <<"U+216D">>, <<"U+216E">>, <<"U+216F">>, <<"U+2170">>, <<"U+2171">>,
     <<"U+2172">>, <<"U+2173">>, <<"U+2174">>, <<"U+2175">>, <<"U+2176">>,
     <<"U+2177">>, <<"U+2178">>, <<"U+2179">>, <<"U+217A">>, <<"U+217B">>,
     <<"U+217C">>, <<"U+217D">>, <<"U+217E">>, <<"U+217F">>, <<"U+2183">>,
     <<"U+2184">>, <<"U+24B6">>, <<"U+24B7">>, <<"U+24B8">>, <<"U+24B9">>,
     <<"U+24BA">>, <<"U+24BB">>, <<"U+24BC">>, <<"U+24BD">>, <<"U+24BE">>,
     <<"U+24BF">>, <<"U+24C0">>, <<"U+24C1">>, <<"U+24C2">>, <<"U+24C3">>,
     <<"U+24C4">>, <<"U+24C5">>, <<"U+24C6">>, <<"U+24C7">>, <<"U+24C8">>,
     <<"U+24C9">>, <<"U+24CA">>, <<"U+24CB">>, <<"U+24CC">>, <<"U+24CD">>,
     <<"U+24CE">>, <<"U+24CF">>, <<"U+24D0">>, <<"U+24D1">>, <<"U+24D2">>,
     <<"U+24D3">>, <<"U+24D4">>, <<"U+24D5">>, <<"U+24D6">>, <<"U+24D7">>,
     <<"U+24D8">>, <<"U+24D9">>, <<"U+24DA">>, <<"U+24DB">>, <<"U+24DC">>,
     <<"U+24DD">>, <<"U+24DE">>, <<"U+24DF">>, <<"U+24E0">>, <<"U+24E1">>,
     <<"U+24E2">>, <<"U+24E3">>, <<"U+24E4">>, <<"U+24E5">>, <<"U+24E6">>,
     <<"U+24E7">>, <<"U+24E8">>, <<"U+24E9">>, <<"U+2C00">>, <<"U+2C01">>,
     <<"U+2C02">>, <<"U+2C03">>, <<"U+2C04">>, <<"U+2C05">>, <<"U+2C06">>,
     <<"U+2C07">>, <<"U+2C08">>, <<"U+2C09">>, <<"U+2C0A">>, <<"U+2C0B">>,
     <<"U+2C0C">>, <<"U+2C0D">>, <<"U+2C0E">>, <<"U+2C0F">>, <<"U+2C10">>,
     <<"U+2C11">>, <<"U+2C12">>, <<"U+2C13">>, <<"U+2C14">>, <<"U+2C15">>,
     <<"U+2C16">>, <<"U+2C17">>, <<"U+2C18">>, <<"U+2C19">>, <<"U+2C1A">>,
     <<"U+2C1B">>, <<"U+2C1C">>, <<"U+2C1D">>, <<"U+2C1E">>, <<"U+2C1F">>,
     <<"U+2C20">>, <<"U+2C21">>, <<"U+2C22">>, <<"U+2C23">>, <<"U+2C24">>,
     <<"U+2C25">>, <<"U+2C26">>, <<"U+2C27">>, <<"U+2C28">>, <<"U+2C29">>,
     <<"U+2C2A">>, <<"U+2C2B">>, <<"U+2C2C">>, <<"U+2C2D">>, <<"U+2C2E">>,
     <<"U+2C2F">>, <<"U+2C30">>, <<"U+2C31">>, <<"U+2C32">>, <<"U+2C33">>,
     <<"U+2C34">>, <<"U+2C35">>, <<"U+2C36">>, <<"U+2C37">>, <<"U+2C38">>,
     <<"U+2C39">>, <<"U+2C3A">>, <<"U+2C3B">>, <<"U+2C3C">>, <<"U+2C3D">>,
     <<"U+2C3E">>, <<"U+2C3F">>, <<"U+2C40">>, <<"U+2C41">>, <<"U+2C42">>,
     <<"U+2C43">>, <<"U+2C44">>, <<"U+2C45">>, <<"U+2C46">>, <<"U+2C47">>,
     <<"U+2C48">>, <<"U+2C49">>, <<"U+2C4A">>, <<"U+2C4B">>, <<"U+2C4C">>,
     <<"U+2C4D">>, <<"U+2C4E">>, <<"U+2C4F">>, <<"U+2C50">>, <<"U+2C51">>,
     <<"U+2C52">>, <<"U+2C53">>, <<"U+2C54">>, <<"U+2C55">>, <<"U+2C56">>,
     <<"U+2C57">>, <<"U+2C58">>, <<"U+2C59">>, <<"U+2C5A">>, <<"U+2C5B">>,
     <<"U+2C5C">>, <<"U+2C5D">>, <<"U+2C5E">>, <<"U+2C5F">>, <<"U+2C60">>,
     <<"U+2C61">>, <<"U+2C62">>, <<"U+2C63">>, <<"U+2C64">>, <<"U+2C65">>,
     <<"U+2C66">>, <<"U+2C67">>, <<"U+2C68">>, <<"U+2C69">>, <<"U+2C6A">>,
     <<"U+2C6B">>, <<"U+2C6C">>, <<"U+2C6D">>, <<"U+2C6E">>, <<"U+2C6F">>,
     <<"U+2C70">>, <<"U+2C71">>, <<"U+2C72">>, <<"U+2C73">>, <<"U+2C74">>,
     <<"U+2C75">>, <<"U+2C76">>, <<"U+2C77">>, <<"U+2C78">>, <<"U+2C79">>,
     <<"U+2C7A">>, <<"U+2C7B">>, <<"U+2C7E">>, <<"U+2C7F">>, <<"U+2C80">>,
     <<"U+2C81">>, <<"U+2C82">>, <<"U+2C83">>, <<"U+2C84">>, <<"U+2C85">>,
     <<"U+2C86">>, <<"U+2C87">>, <<"U+2C88">>, <<"U+2C89">>, <<"U+2C8A">>,
     <<"U+2C8B">>, <<"U+2C8C">>, <<"U+2C8D">>, <<"U+2C8E">>, <<"U+2C8F">>,
     <<"U+2C90">>, <<"U+2C91">>, <<"U+2C92">>, <<"U+2C93">>, <<"U+2C94">>,
     <<"U+2C95">>, <<"U+2C96">>, <<"U+2C97">>, <<"U+2C98">>, <<"U+2C99">>,
     <<"U+2C9A">>, <<"U+2C9B">>, <<"U+2C9C">>, <<"U+2C9D">>, <<"U+2C9E">>,
     <<"U+2C9F">>, <<"U+2CA0">>, <<"U+2CA1">>, <<"U+2CA2">>, <<"U+2CA3">>,
     <<"U+2CA4">>, <<"U+2CA5">>, <<"U+2CA6">>, <<"U+2CA7">>, <<"U+2CA8">>,
     <<"U+2CA9">>, <<"U+2CAA">>, <<"U+2CAB">>, <<"U+2CAC">>, <<"U+2CAD">>,
     <<"U+2CAE">>, <<"U+2CAF">>, <<"U+2CB0">>, <<"U+2CB1">>, <<"U+2CB2">>,
     <<"U+2CB3">>, <<"U+2CB4">>, <<"U+2CB5">>, <<"U+2CB6">>, <<"U+2CB7">>,
     <<"U+2CB8">>, <<"U+2CB9">>, <<"U+2CBA">>, <<"U+2CBB">>, <<"U+2CBC">>,
     <<"U+2CBD">>, <<"U+2CBE">>, <<"U+2CBF">>, <<"U+2CC0">>, <<"U+2CC1">>,
     <<"U+2CC2">>, <<"U+2CC3">>, <<"U+2CC4">>, <<"U+2CC5">>, <<"U+2CC6">>,
     <<"U+2CC7">>, <<"U+2CC8">>, <<"U+2CC9">>, <<"U+2CCA">>, <<"U+2CCB">>,
     <<"U+2CCC">>, <<"U+2CCD">>, <<"U+2CCE">>, <<"U+2CCF">>, <<"U+2CD0">>,
     <<"U+2CD1">>, <<"U+2CD2">>, <<"U+2CD3">>, <<"U+2CD4">>, <<"U+2CD5">>,
     <<"U+2CD6">>, <<"U+2CD7">>, <<"U+2CD8">>, <<"U+2CD9">>, <<"U+2CDA">>,
     <<"U+2CDB">>, <<"U+2CDC">>, <<"U+2CDD">>, <<"U+2CDE">>, <<"U+2CDF">>,
     <<"U+2CE0">>, <<"U+2CE1">>, <<"U+2CE2">>, <<"U+2CE3">>, <<"U+2CE4">>,
     <<"U+2CEB">>, <<"U+2CEC">>, <<"U+2CED">>, <<"U+2CEE">>, <<"U+2CF2">>,
     <<"U+2CF3">>, <<"U+2D00">>, <<"U+2D01">>, <<"U+2D02">>, <<"U+2D03">>,
     <<"U+2D04">>, <<"U+2D05">>, <<"U+2D06">>, <<"U+2D07">>, <<"U+2D08">>,
     <<"U+2D09">>, <<"U+2D0A">>, <<"U+2D0B">>, <<"U+2D0C">>, <<"U+2D0D">>,
     <<"U+2D0E">>, <<"U+2D0F">>, <<"U+2D10">>, <<"U+2D11">>, <<"U+2D12">>,
     <<"U+2D13">>, <<"U+2D14">>, <<"U+2D15">>, <<"U+2D16">>, <<"U+2D17">>,
     <<"U+2D18">>, <<"U+2D19">>, <<"U+2D1A">>, <<"U+2D1B">>, <<"U+2D1C">>,
     <<"U+2D1D">>, <<"U+2D1E">>, <<"U+2D1F">>, <<"U+2D20">>, <<"U+2D21">>,
     <<"U+2D22">>, <<"U+2D23">>, <<"U+2D24">>, <<"U+2D25">>, <<"U+2D27">>,
     <<"U+2D2D">>, <<"U+A640">>, <<"U+A641">>, <<"U+A642">>, <<"U+A643">>,
     <<"U+A644">>, <<"U+A645">>, <<"U+A646">>, <<"U+A647">>, <<"U+A648">>,
     <<"U+A649">>, <<"U+A64A">>, <<"U+A64B">>, <<"U+A64C">>, <<"U+A64D">>,
     <<"U+A64E">>, <<"U+A64F">>, <<"U+A650">>, <<"U+A651">>, <<"U+A652">>,
     <<"U+A653">>, <<"U+A654">>, <<"U+A655">>, <<"U+A656">>, <<"U+A657">>,
     <<"U+A658">>, <<"U+A659">>, <<"U+A65A">>, <<"U+A65B">>, <<"U+A65C">>,
     <<"U+A65D">>, <<"U+A65E">>, <<"U+A65F">>, <<"U+A660">>, <<"U+A661">>,
     <<"U+A662">>, <<"U+A663">>, <<"U+A664">>, <<"U+A665">>, <<"U+A666">>,
     <<"U+A667">>, <<"U+A668">>, <<"U+A669">>, <<"U+A66A">>, <<"U+A66B">>,
     <<"U+A66C">>, <<"U+A66D">>, <<"U+A680">>, <<"U+A681">>, <<"U+A682">>,
     <<"U+A683">>, <<"U+A684">>, <<"U+A685">>, <<"U+A686">>, <<"U+A687">>,
     <<"U+A688">>, <<"U+A689">>, <<"U+A68A">>, <<"U+A68B">>, <<"U+A68C">>,
     <<"U+A68D">>, <<"U+A68E">>, <<"U+A68F">>, <<"U+A690">>, <<"U+A691">>,
     <<"U+A692">>, <<"U+A693">>, <<"U+A694">>, <<"U+A695">>, <<"U+A696">>,
     <<"U+A697">>, <<"U+A698">>, <<"U+A699">>, <<"U+A69A">>, <<"U+A69B">>,
     <<"U+A722">>, <<"U+A723">>, <<"U+A724">>, <<"U+A725">>, <<"U+A726">>,
     <<"U+A727">>, <<"U+A728">>, <<"U+A729">>, <<"U+A72A">>, <<"U+A72B">>,
     <<"U+A72C">>, <<"U+A72D">>, <<"U+A72E">>, <<"U+A72F">>, <<"U+A730">>,
     <<"U+A731">>, <<"U+A732">>, <<"U+A733">>, <<"U+A734">>, <<"U+A735">>,
     <<"U+A736">>, <<"U+A737">>, <<"U+A738">>, <<"U+A739">>, <<"U+A73A">>,
     <<"U+A73B">>, <<"U+A73C">>, <<"U+A73D">>, <<"U+A73E">>, <<"U+A73F">>,
     <<"U+A740">>, <<"U+A741">>, <<"U+A742">>, <<"U+A743">>, <<"U+A744">>,
     <<"U+A745">>, <<"U+A746">>, <<"U+A747">>, <<"U+A748">>, <<"U+A749">>,
     <<"U+A74A">>, <<"U+A74B">>, <<"U+A74C">>, <<"U+A74D">>, <<"U+A74E">>,
     <<"U+A74F">>, <<"U+A750">>, <<"U+A751">>, <<"U+A752">>, <<"U+A753">>,
     <<"U+A754">>, <<"U+A755">>, <<"U+A756">>, <<"U+A757">>, <<"U+A758">>,
     <<"U+A759">>, <<"U+A75A">>, <<"U+A75B">>, <<"U+A75C">>, <<"U+A75D">>,
     <<"U+A75E">>, <<"U+A75F">>, <<"U+A760">>, <<"U+A761">>, <<"U+A762">>,
     <<"U+A763">>, <<"U+A764">>, <<"U+A765">>, <<"U+A766">>, <<"U+A767">>,
     <<"U+A768">>, <<"U+A769">>, <<"U+A76A">>, <<"U+A76B">>, <<"U+A76C">>,
     <<"U+A76D">>, <<"U+A76E">>, <<"U+A76F">>, <<"U+A771">>, <<"U+A772">>,
     <<"U+A773">>, <<"U+A774">>, <<"U+A775">>, <<"U+A776">>, <<"U+A777">>,
     <<"U+A778">>, <<"U+A779">>, <<"U+A77A">>, <<"U+A77B">>, <<"U+A77C">>,
     <<"U+A77D">>, <<"U+A77E">>, <<"U+A77F">>, <<"U+A780">>, <<"U+A781">>,
     <<"U+A782">>, <<"U+A783">>, <<"U+A784">>, <<"U+A785">>, <<"U+A786">>,
     <<"U+A787">>, <<"U+A78B">>, <<"U+A78C">>, <<"U+A78D">>, <<"U+A78E">>,
     <<"U+A790">>, <<"U+A791">>, <<"U+A792">>, <<"U+A793">>, <<"U+A794">>,
     <<"U+A795">>, <<"U+A796">>, <<"U+A797">>, <<"U+A798">>, <<"U+A799">>,
     <<"U+A79A">>, <<"U+A79B">>, <<"U+A79C">>, <<"U+A79D">>, <<"U+A79E">>,
     <<"U+A79F">>, <<"U+A7A0">>, <<"U+A7A1">>, <<"U+A7A2">>, <<"U+A7A3">>,
     <<"U+A7A4">>, <<"U+A7A5">>, <<"U+A7A6">>, <<"U+A7A7">>, <<"U+A7A8">>,
     <<"U+A7A9">>, <<"U+A7AA">>, <<"U+A7AB">>, <<"U+A7AC">>, <<"U+A7AD">>,
     <<"U+A7AE">>, <<"U+A7AF">>, <<"U+A7B0">>, <<"U+A7B1">>, <<"U+A7B2">>,
     <<"U+A7B3">>, <<"U+A7B4">>, <<"U+A7B5">>, <<"U+A7B6">>, <<"U+A7B7">>,
     <<"U+A7B8">>, <<"U+A7B9">>, <<"U+A7BA">>, <<"U+A7BB">>, <<"U+A7BC">>,
     <<"U+A7BD">>, <<"U+A7BE">>, <<"U+A7BF">>, <<"U+A7C0">>, <<"U+A7C1">>,
     <<"U+A7C2">>, <<"U+A7C3">>, <<"U+A7C4">>, <<"U+A7C5">>, <<"U+A7C6">>,
     <<"U+A7C7">>, <<"U+A7C8">>, <<"U+A7C9">>, <<"U+A7CA">>, <<"U+A7CB">>,
     <<"U+A7CC">>, <<"U+A7CD">>, <<"U+A7CE">>, <<"U+A7CF">>, <<"U+A7D0">>,
     <<"U+A7D1">>, <<"U+A7D2">>, <<"U+A7D3">>, <<"U+A7D4">>, <<"U+A7D5">>,
     <<"U+A7D6">>, <<"U+A7D7">>, <<"U+A7D8">>, <<"U+A7D9">>, <<"U+A7DA">>,
     <<"U+A7DB">>, <<"U+A7DC">>, <<"U+A7F5">>, <<"U+A7F6">>, <<"U+A7FA">>,
     <<"U+AB30">>, <<"U+AB31">>, <<"U+AB32">>, <<"U+AB33">>, <<"U+AB34">>,
     <<"U+AB35">>, <<"U+AB36">>, <<"U+AB37">>, <<"U+AB38">>, <<"U+AB39">>,
     <<"U+AB3A">>, <<"U+AB3B">>, <<"U+AB3C">>, <<"U+AB3D">>, <<"U+AB3E">>,
     <<"U+AB3F">>, <<"U+AB40">>, <<"U+AB41">>, <<"U+AB42">>, <<"U+AB43">>,
     <<"U+AB44">>, <<"U+AB45">>, <<"U+AB46">>, <<"U+AB47">>, <<"U+AB48">>,
     <<"U+AB49">>, <<"U+AB4A">>, <<"U+AB4B">>, <<"U+AB4C">>, <<"U+AB4D">>,
     <<"U+AB4E">>, <<"U+AB4F">>, <<"U+AB50">>, <<"U+AB51">>, <<"U+AB52">>,
     <<"U+AB53">>, <<"U+AB54">>, <<"U+AB55">>, <<"U+AB56">>, <<"U+AB57">>,
     <<"U+AB58">>, <<"U+AB59">>, <<"U+AB5A">>, <<"U+AB60">>, <<"U+AB61">>,
     <<"U+AB62">>, <<"U+AB63">>, <<"U+AB64">>, <<"U+AB65">>, <<"U+AB66">>,
     <<"U+AB67">>, <<"U+AB68">>, <<"U+AB70">>, <<"U+AB71">>, <<"U+AB72">>,
     <<"U+AB73">>, <<"U+AB74">>, <<"U+AB75">>, <<"U+AB76">>, <<"U+AB77">>,
     <<"U+AB78">>, <<"U+AB79">>, <<"U+AB7A">>, <<"U+AB7B">>, <<"U+AB7C">>,
     <<"U+AB7D">>, <<"U+AB7E">>, <<"U+AB7F">>, <<"U+AB80">>, <<"U+AB81">>,
     <<"U+AB82">>, <<"U+AB83">>, <<"U+AB84">>, <<"U+AB85">>, <<"U+AB86">>,
     <<"U+AB87">>, <<"U+AB88">>, <<"U+AB89">>, <<"U+AB8A">>, <<"U+AB8B">>,
     <<"U+AB8C">>, <<"U+AB8D">>, <<"U+AB8E">>, <<"U+AB8F">>, <<"U+AB90">>,
     <<"U+AB91">>, <<"U+AB92">>, <<"U+AB93">>, <<"U+AB94">>, <<"U+AB95">>,
     <<"U+AB96">>, <<"U+AB97">>, <<"U+AB98">>, <<"U+AB99">>, <<"U+AB9A">>,
     <<"U+AB9B">>, <<"U+AB9C">>, <<"U+AB9D">>, <<"U+AB9E">>, <<"U+AB9F">>,
     <<"U+ABA0">>, <<"U+ABA1">>, <<"U+ABA2">>, <<"U+ABA3">>, <<"U+ABA4">>,
     <<"U+ABA5">>, <<"U+ABA6">>, <<"U+ABA7">>, <<"U+ABA8">>, <<"U+ABA9">>,
     <<"U+ABAA">>, <<"U+ABAB">>, <<"U+ABAC">>, <<"U+ABAD">>, <<"U+ABAE">>,
     <<"U+ABAF">>, <<"U+ABB0">>, <<"U+ABB1">>, <<"U+ABB2">>, <<"U+ABB3">>,
     <<"U+ABB4">>, <<"U+ABB5">>, <<"U+ABB6">>, <<"U+ABB7">>, <<"U+ABB8">>,
     <<"U+ABB9">>, <<"U+ABBA">>, <<"U+ABBB">>, <<"U+ABBC">>, <<"U+ABBD">>,
     <<"U+ABBE">>, <<"U+ABBF">>, <<"U+FB00">>, <<"U+FB01">>, <<"U+FB02">>,
     <<"U+FB03">>, <<"U+FB04">>, <<"U+FB05">>, <<"U+FB06">>, <<"U+FB13">>,
     <<"U+FB14">>, <<"U+FB15">>, <<"U+FB16">>, <<"U+FB17">>, <<"U+FF21">>,
     <<"U+FF22">>, <<"U+FF23">>, <<"U+FF24">>, <<"U+FF25">>, <<"U+FF26">>,
     <<"U+FF27">>, <<"U+FF28">>, <<"U+FF29">>, <<"U+FF2A">>, <<"U+FF2B">>,
     <<"U+FF2C">>, <<"U+FF2D">>, <<"U+FF2E">>, <<"U+FF2F">>, <<"U+FF30">>,
     <<"U+FF31">>, <<"U+FF32">>, <<"U+FF33">>, <<"U+FF34">>, <<"U+FF35">>,
     <<"U+FF36">>, <<"U+FF37">>, <<"U+FF38">>, <<"U+FF39">>, <<"U+FF3A">>,
     <<"U+FF41">>, <<"U+FF42">>, <<"U+FF43">>, <<"U+FF44">>, <<"U+FF45">>,
     <<"U+FF46">>, <<"U+FF47">>, <<"U+FF48">>, <<"U+FF49">>, <<"U+FF4A">>,
     <<"U+FF4B">>, <<"U+FF4C">>, <<"U+FF4D">>, <<"U+FF4E">>, <<"U+FF4F">>,
     <<"U+FF50">>, <<"U+FF51">>, <<"U+FF52">>, <<"U+FF53">>, <<"U+FF54">>,
     <<"U+FF55">>, <<"U+FF56">>, <<"U+FF57">>, <<"U+FF58">>, <<"U+FF59">>,
     <<"U+FF5A">>, <<"U+D801", "U+DC00">>, <<"U+D801", "U+DC01">>,
     <<"U+D801", "U+DC02">>, <<"U+D801", "U+DC03">>, <<"U+D801", "U+DC04">>,
     <<"U+D801", "U+DC05">>, <<"U+D801", "U+DC06">>, <<"U+D801", "U+DC07">>,
     <<"U+D801", "U+DC08">>, <<"U+D801", "U+DC09">>, <<"U+D801", "U+DC0A">>,
     <<"U+D801", "U+DC0B">>, <<"U+D801", "U+DC0C">>, <<"U+D801", "U+DC0D">>,
     <<"U+D801", "U+DC0E">>, <<"U+D801", "U+DC0F">>, <<"U+D801", "U+DC10">>,
     <<"U+D801", "U+DC11">>, <<"U+D801", "U+DC12">>, <<"U+D801", "U+DC13">>,
     <<"U+D801", "U+DC14">>, <<"U+D801", "U+DC15">>, <<"U+D801", "U+DC16">>,
     <<"U+D801", "U+DC17">>, <<"U+D801", "U+DC18">>, <<"U+D801", "U+DC19">>,
     <<"U+D801", "U+DC1A">>, <<"U+D801", "U+DC1B">>, <<"U+D801", "U+DC1C">>,
     <<"U+D801", "U+DC1D">>, <<"U+D801", "U+DC1E">>, <<"U+D801", "U+DC1F">>,
     <<"U+D801", "U+DC20">>, <<"U+D801", "U+DC21">>, <<"U+D801", "U+DC22">>,
     <<"U+D801", "U+DC23">>, <<"U+D801", "U+DC24">>, <<"U+D801", "U+DC25">>,
     <<"U+D801", "U+DC26">>, <<"U+D801", "U+DC27">>, <<"U+D801", "U+DC28">>,
     <<"U+D801", "U+DC29">>, <<"U+D801", "U+DC2A">>, <<"U+D801", "U+DC2B">>,
     <<"U+D801", "U+DC2C">>, <<"U+D801", "U+DC2D">>, <<"U+D801", "U+DC2E">>,
     <<"U+D801", "U+DC2F">>, <<"U+D801", "U+DC30">>, <<"U+D801", "U+DC31">>,
     <<"U+D801", "U+DC32">>, <<"U+D801", "U+DC33">>, <<"U+D801", "U+DC34">>,
     <<"U+D801", "U+DC35">>, <<"U+D801", "U+DC36">>, <<"U+D801", "U+DC37">>,
     <<"U+D801", "U+DC38">>, <<"U+D801", "U+DC39">>, <<"U+D801", "U+DC3A">>,
     <<"U+D801", "U+DC3B">>, <<"U+D801", "U+DC3C">>, <<"U+D801", "U+DC3D">>,
     <<"U+D801", "U+DC3E">>, <<"U+D801", "U+DC3F">>, <<"U+D801", "U+DC40">>,
     <<"U+D801", "U+DC41">>, <<"U+D801", "U+DC42">>, <<"U+D801", "U+DC43">>,
     <<"U+D801", "U+DC44">>, <<"U+D801", "U+DC45">>, <<"U+D801", "U+DC46">>,
     <<"U+D801", "U+DC47">>, <<"U+D801", "U+DC48">>, <<"U+D801", "U+DC49">>,
     <<"U+D801", "U+DC4A">>, <<"U+D801", "U+DC4B">>, <<"U+D801", "U+DC4C">>,
     <<"U+D801", "U+DC4D">>, <<"U+D801", "U+DC4E">>, <<"U+D801", "U+DC4F">>,
     <<"U+D801", "U+DCB0">>, <<"U+D801", "U+DCB1">>, <<"U+D801", "U+DCB2">>,
     <<"U+D801", "U+DCB3">>, <<"U+D801", "U+DCB4">>, <<"U+D801", "U+DCB5">>,
     <<"U+D801", "U+DCB6">>, <<"U+D801", "U+DCB7">>, <<"U+D801", "U+DCB8">>,
     <<"U+D801", "U+DCB9">>, <<"U+D801", "U+DCBA">>, <<"U+D801", "U+DCBB">>,
     <<"U+D801", "U+DCBC">>, <<"U+D801", "U+DCBD">>, <<"U+D801", "U+DCBE">>,
     <<"U+D801", "U+DCBF">>, <<"U+D801", "U+DCC0">>, <<"U+D801", "U+DCC1">>,
     <<"U+D801", "U+DCC2">>, <<"U+D801", "U+DCC3">>, <<"U+D801", "U+DCC4">>,
     <<"U+D801", "U+DCC5">>, <<"U+D801", "U+DCC6">>, <<"U+D801", "U+DCC7">>,
     <<"U+D801", "U+DCC8">>, <<"U+D801", "U+DCC9">>, <<"U+D801", "U+DCCA">>,
     <<"U+D801", "U+DCCB">>, <<"U+D801", "U+DCCC">>, <<"U+D801", "U+DCCD">>,
     <<"U+D801", "U+DCCE">>, <<"U+D801", "U+DCCF">>, <<"U+D801", "U+DCD0">>,
     <<"U+D801", "U+DCD1">>, <<"U+D801", "U+DCD2">>, <<"U+D801", "U+DCD3">>,
     <<"U+D801", "U+DCD8">>, <<"U+D801", "U+DCD9">>, <<"U+D801", "U+DCDA">>,
     <<"U+D801", "U+DCDB">>, <<"U+D801", "U+DCDC">>, <<"U+D801", "U+DCDD">>,
     <<"U+D801", "U+DCDE">>, <<"U+D801", "U+DCDF">>, <<"U+D801", "U+DCE0">>,
     <<"U+D801", "U+DCE1">>, <<"U+D801", "U+DCE2">>, <<"U+D801", "U+DCE3">>,
     <<"U+D801", "U+DCE4">>, <<"U+D801", "U+DCE5">>, <<"U+D801", "U+DCE6">>,
     <<"U+D801", "U+DCE7">>, <<"U+D801", "U+DCE8">>, <<"U+D801", "U+DCE9">>,
     <<"U+D801", "U+DCEA">>, <<"U+D801", "U+DCEB">>, <<"U+D801", "U+DCEC">>,
     <<"U+D801", "U+DCED">>, <<"U+D801", "U+DCEE">>, <<"U+D801", "U+DCEF">>,
     <<"U+D801", "U+DCF0">>, <<"U+D801", "U+DCF1">>, <<"U+D801", "U+DCF2">>,
     <<"U+D801", "U+DCF3">>, <<"U+D801", "U+DCF4">>, <<"U+D801", "U+DCF5">>,
     <<"U+D801", "U+DCF6">>, <<"U+D801", "U+DCF7">>, <<"U+D801", "U+DCF8">>,
     <<"U+D801", "U+DCF9">>, <<"U+D801", "U+DCFA">>, <<"U+D801", "U+DCFB">>,
     <<"U+D801", "U+DD70">>, <<"U+D801", "U+DD71">>, <<"U+D801", "U+DD72">>,
     <<"U+D801", "U+DD73">>, <<"U+D801", "U+DD74">>, <<"U+D801", "U+DD75">>,
     <<"U+D801", "U+DD76">>, <<"U+D801", "U+DD77">>, <<"U+D801", "U+DD78">>,
     <<"U+D801", "U+DD79">>, <<"U+D801", "U+DD7A">>, <<"U+D801", "U+DD7C">>,
     <<"U+D801", "U+DD7D">>, <<"U+D801", "U+DD7E">>, <<"U+D801", "U+DD7F">>,
     <<"U+D801", "U+DD80">>, <<"U+D801", "U+DD81">>, <<"U+D801", "U+DD82">>,
     <<"U+D801", "U+DD83">>, <<"U+D801", "U+DD84">>, <<"U+D801", "U+DD85">>,
     <<"U+D801", "U+DD86">>, <<"U+D801", "U+DD87">>, <<"U+D801", "U+DD88">>,
     <<"U+D801", "U+DD89">>, <<"U+D801", "U+DD8A">>, <<"U+D801", "U+DD8C">>,
     <<"U+D801", "U+DD8D">>, <<"U+D801", "U+DD8E">>, <<"U+D801", "U+DD8F">>,
     <<"U+D801", "U+DD90">>, <<"U+D801", "U+DD91">>, <<"U+D801", "U+DD92">>,
     <<"U+D801", "U+DD94">>, <<"U+D801", "U+DD95">>, <<"U+D801", "U+DD97">>,
     <<"U+D801", "U+DD98">>, <<"U+D801", "U+DD99">>, <<"U+D801", "U+DD9A">>,
     <<"U+D801", "U+DD9B">>, <<"U+D801", "U+DD9C">>, <<"U+D801", "U+DD9D">>,
     <<"U+D801", "U+DD9E">>, <<"U+D801", "U+DD9F">>, <<"U+D801", "U+DDA0">>,
     <<"U+D801", "U+DDA1">>, <<"U+D801", "U+DDA3">>, <<"U+D801", "U+DDA4">>,
     <<"U+D801", "U+DDA5">>, <<"U+D801", "U+DDA6">>, <<"U+D801", "U+DDA7">>,
     <<"U+D801", "U+DDA8">>, <<"U+D801", "U+DDA9">>, <<"U+D801", "U+DDAA">>,
     <<"U+D801", "U+DDAB">>, <<"U+D801", "U+DDAC">>, <<"U+D801", "U+DDAD">>,
     <<"U+D801", "U+DDAE">>, <<"U+D801", "U+DDAF">>, <<"U+D801", "U+DDB0">>,
     <<"U+D801", "U+DDB1">>, <<"U+D801", "U+DDB3">>, <<"U+D801", "U+DDB4">>,
     <<"U+D801", "U+DDB5">>, <<"U+D801", "U+DDB6">>, <<"U+D801", "U+DDB7">>,
     <<"U+D801", "U+DDB8">>, <<"U+D801", "U+DDB9">>, <<"U+D801", "U+DDBB">>,
     <<"U+D801", "U+DDBC">>, <<"U+D803", "U+DC80">>, <<"U+D803", "U+DC81">>,
     <<"U+D803", "U+DC82">>, <<"U+D803", "U+DC83">>, <<"U+D803", "U+DC84">>,
     <<"U+D803", "U+DC85">>, <<"U+D803", "U+DC86">>, <<"U+D803", "U+DC87">>,
     <<"U+D803", "U+DC88">>, <<"U+D803", "U+DC89">>, <<"U+D803", "U+DC8A">>,
     <<"U+D803", "U+DC8B">>, <<"U+D803", "U+DC8C">>, <<"U+D803", "U+DC8D">>,
     <<"U+D803", "U+DC8E">>, <<"U+D803", "U+DC8F">>, <<"U+D803", "U+DC90">>,
     <<"U+D803", "U+DC91">>, <<"U+D803", "U+DC92">>, <<"U+D803", "U+DC93">>,
     <<"U+D803", "U+DC94">>, <<"U+D803", "U+DC95">>, <<"U+D803", "U+DC96">>,
     <<"U+D803", "U+DC97">>, <<"U+D803", "U+DC98">>, <<"U+D803", "U+DC99">>,
     <<"U+D803", "U+DC9A">>, <<"U+D803", "U+DC9B">>, <<"U+D803", "U+DC9C">>,
     <<"U+D803", "U+DC9D">>, <<"U+D803", "U+DC9E">>, <<"U+D803", "U+DC9F">>,
     <<"U+D803", "U+DCA0">>, <<"U+D803", "U+DCA1">>, <<"U+D803", "U+DCA2">>,
     <<"U+D803", "U+DCA3">>, <<"U+D803", "U+DCA4">>, <<"U+D803", "U+DCA5">>,
     <<"U+D803", "U+DCA6">>, <<"U+D803", "U+DCA7">>, <<"U+D803", "U+DCA8">>,
     <<"U+D803", "U+DCA9">>, <<"U+D803", "U+DCAA">>, <<"U+D803", "U+DCAB">>,
     <<"U+D803", "U+DCAC">>, <<"U+D803", "U+DCAD">>, <<"U+D803", "U+DCAE">>,
     <<"U+D803", "U+DCAF">>, <<"U+D803", "U+DCB0">>, <<"U+D803", "U+DCB1">>,
     <<"U+D803", "U+DCB2">>, <<"U+D803", "U+DCC0">>, <<"U+D803", "U+DCC1">>,
     <<"U+D803", "U+DCC2">>, <<"U+D803", "U+DCC3">>, <<"U+D803", "U+DCC4">>,
     <<"U+D803", "U+DCC5">>, <<"U+D803", "U+DCC6">>, <<"U+D803", "U+DCC7">>,
     <<"U+D803", "U+DCC8">>, <<"U+D803", "U+DCC9">>, <<"U+D803", "U+DCCA">>,
     <<"U+D803", "U+DCCB">>, <<"U+D803", "U+DCCC">>, <<"U+D803", "U+DCCD">>,
     <<"U+D803", "U+DCCE">>, <<"U+D803", "U+DCCF">>, <<"U+D803", "U+DCD0">>,
     <<"U+D803", "U+DCD1">>, <<"U+D803", "U+DCD2">>, <<"U+D803", "U+DCD3">>,
     <<"U+D803", "U+DCD4">>, <<"U+D803", "U+DCD5">>, <<"U+D803", "U+DCD6">>,
     <<"U+D803", "U+DCD7">>, <<"U+D803", "U+DCD8">>, <<"U+D803", "U+DCD9">>,
     <<"U+D803", "U+DCDA">>, <<"U+D803", "U+DCDB">>, <<"U+D803", "U+DCDC">>,
     <<"U+D803", "U+DCDD">>, <<"U+D803", "U+DCDE">>, <<"U+D803", "U+DCDF">>,
     <<"U+D803", "U+DCE0">>, <<"U+D803", "U+DCE1">>, <<"U+D803", "U+DCE2">>,
     <<"U+D803", "U+DCE3">>, <<"U+D803", "U+DCE4">>, <<"U+D803", "U+DCE5">>,
     <<"U+D803", "U+DCE6">>, <<"U+D803", "U+DCE7">>, <<"U+D803", "U+DCE8">>,
     <<"U+D803", "U+DCE9">>, <<"U+D803", "U+DCEA">>, <<"U+D803", "U+DCEB">>,
     <<"U+D803", "U+DCEC">>, <<"U+D803", "U+DCED">>, <<"U+D803", "U+DCEE">>,
     <<"U+D803", "U+DCEF">>, <<"U+D803", "U+DCF0">>, <<"U+D803", "U+DCF1">>,
     <<"U+D803", "U+DCF2">>, <<"U+D803", "U+DD50">>, <<"U+D803", "U+DD51">>,
     <<"U+D803", "U+DD52">>, <<"U+D803", "U+DD53">>, <<"U+D803", "U+DD54">>,
     <<"U+D803", "U+DD55">>, <<"U+D803", "U+DD56">>, <<"U+D803", "U+DD57">>,
     <<"U+D803", "U+DD58">>, <<"U+D803", "U+DD59">>, <<"U+D803", "U+DD5A">>,
     <<"U+D803", "U+DD5B">>, <<"U+D803", "U+DD5C">>, <<"U+D803", "U+DD5D">>,
     <<"U+D803", "U+DD5E">>, <<"U+D803", "U+DD5F">>, <<"U+D803", "U+DD60">>,
     <<"U+D803", "U+DD61">>, <<"U+D803", "U+DD62">>, <<"U+D803", "U+DD63">>,
     <<"U+D803", "U+DD64">>, <<"U+D803", "U+DD65">>, <<"U+D803", "U+DD70">>,
     <<"U+D803", "U+DD71">>, <<"U+D803", "U+DD72">>, <<"U+D803", "U+DD73">>,
     <<"U+D803", "U+DD74">>, <<"U+D803", "U+DD75">>, <<"U+D803", "U+DD76">>,
     <<"U+D803", "U+DD77">>, <<"U+D803", "U+DD78">>, <<"U+D803", "U+DD79">>,
     <<"U+D803", "U+DD7A">>, <<"U+D803", "U+DD7B">>, <<"U+D803", "U+DD7C">>,
     <<"U+D803", "U+DD7D">>, <<"U+D803", "U+DD7E">>, <<"U+D803", "U+DD7F">>,
     <<"U+D803", "U+DD80">>, <<"U+D803", "U+DD81">>, <<"U+D803", "U+DD82">>,
     <<"U+D803", "U+DD83">>, <<"U+D803", "U+DD84">>, <<"U+D803", "U+DD85">>,
     <<"U+D806", "U+DCA0">>, <<"U+D806", "U+DCA1">>, <<"U+D806", "U+DCA2">>,
     <<"U+D806", "U+DCA3">>, <<"U+D806", "U+DCA4">>, <<"U+D806", "U+DCA5">>,
     <<"U+D806", "U+DCA6">>, <<"U+D806", "U+DCA7">>, <<"U+D806", "U+DCA8">>,
     <<"U+D806", "U+DCA9">>, <<"U+D806", "U+DCAA">>, <<"U+D806", "U+DCAB">>,
     <<"U+D806", "U+DCAC">>, <<"U+D806", "U+DCAD">>, <<"U+D806", "U+DCAE">>,
     <<"U+D806", "U+DCAF">>, <<"U+D806", "U+DCB0">>, <<"U+D806", "U+DCB1">>,
     <<"U+D806", "U+DCB2">>, <<"U+D806", "U+DCB3">>, <<"U+D806", "U+DCB4">>,
     <<"U+D806", "U+DCB5">>, <<"U+D806", "U+DCB6">>, <<"U+D806", "U+DCB7">>,
     <<"U+D806", "U+DCB8">>, <<"U+D806", "U+DCB9">>, <<"U+D806", "U+DCBA">>,
     <<"U+D806", "U+DCBB">>, <<"U+D806", "U+DCBC">>, <<"U+D806", "U+DCBD">>,
     <<"U+D806", "U+DCBE">>, <<"U+D806", "U+DCBF">>, <<"U+D806", "U+DCC0">>,
     <<"U+D806", "U+DCC1">>, <<"U+D806", "U+DCC2">>, <<"U+D806", "U+DCC3">>,
     <<"U+D806", "U+DCC4">>, <<"U+D806", "U+DCC5">>, <<"U+D806", "U+DCC6">>,
     <<"U+D806", "U+DCC7">>, <<"U+D806", "U+DCC8">>, <<"U+D806", "U+DCC9">>,
     <<"U+D806", "U+DCCA">>, <<"U+D806", "U+DCCB">>, <<"U+D806", "U+DCCC">>,
     <<"U+D806", "U+DCCD">>, <<"U+D806", "U+DCCE">>, <<"U+D806", "U+DCCF">>,
     <<"U+D806", "U+DCD0">>, <<"U+D806", "U+DCD1">>, <<"U+D806", "U+DCD2">>,
     <<"U+D806", "U+DCD3">>, <<"U+D806", "U+DCD4">>, <<"U+D806", "U+DCD5">>,
     <<"U+D806", "U+DCD6">>, <<"U+D806", "U+DCD7">>, <<"U+D806", "U+DCD8">>,
     <<"U+D806", "U+DCD9">>, <<"U+D806", "U+DCDA">>, <<"U+D806", "U+DCDB">>,
     <<"U+D806", "U+DCDC">>, <<"U+D806", "U+DCDD">>, <<"U+D806", "U+DCDE">>,
     <<"U+D806", "U+DCDF">>, <<"U+D81B", "U+DE40">>, <<"U+D81B", "U+DE41">>,
     <<"U+D81B", "U+DE42">>, <<"U+D81B", "U+DE43">>, <<"U+D81B", "U+DE44">>,
     <<"U+D81B", "U+DE45">>, <<"U+D81B", "U+DE46">>, <<"U+D81B", "U+DE47">>,
     <<"U+D81B", "U+DE48">>, <<"U+D81B", "U+DE49">>, <<"U+D81B", "U+DE4A">>,
     <<"U+D81B", "U+DE4B">>, <<"U+D81B", "U+DE4C">>, <<"U+D81B", "U+DE4D">>,
     <<"U+D81B", "U+DE4E">>, <<"U+D81B", "U+DE4F">>, <<"U+D81B", "U+DE50">>,
     <<"U+D81B", "U+DE51">>, <<"U+D81B", "U+DE52">>, <<"U+D81B", "U+DE53">>,
     <<"U+D81B", "U+DE54">>, <<"U+D81B", "U+DE55">>, <<"U+D81B", "U+DE56">>,
     <<"U+D81B", "U+DE57">>, <<"U+D81B", "U+DE58">>, <<"U+D81B", "U+DE59">>,
     <<"U+D81B", "U+DE5A">>, <<"U+D81B", "U+DE5B">>, <<"U+D81B", "U+DE5C">>,
     <<"U+D81B", "U+DE5D">>, <<"U+D81B", "U+DE5E">>, <<"U+D81B", "U+DE5F">>,
     <<"U+D81B", "U+DE60">>, <<"U+D81B", "U+DE61">>, <<"U+D81B", "U+DE62">>,
     <<"U+D81B", "U+DE63">>, <<"U+D81B", "U+DE64">>, <<"U+D81B", "U+DE65">>,
     <<"U+D81B", "U+DE66">>, <<"U+D81B", "U+DE67">>, <<"U+D81B", "U+DE68">>,
     <<"U+D81B", "U+DE69">>, <<"U+D81B", "U+DE6A">>, <<"U+D81B", "U+DE6B">>,
     <<"U+D81B", "U+DE6C">>, <<"U+D81B", "U+DE6D">>, <<"U+D81B", "U+DE6E">>,
     <<"U+D81B", "U+DE6F">>, <<"U+D81B", "U+DE70">>, <<"U+D81B", "U+DE71">>,
     <<"U+D81B", "U+DE72">>, <<"U+D81B", "U+DE73">>, <<"U+D81B", "U+DE74">>,
     <<"U+D81B", "U+DE75">>, <<"U+D81B", "U+DE76">>, <<"U+D81B", "U+DE77">>,
     <<"U+D81B", "U+DE78">>, <<"U+D81B", "U+DE79">>, <<"U+D81B", "U+DE7A">>,
     <<"U+D81B", "U+DE7B">>, <<"U+D81B", "U+DE7C">>, <<"U+D81B", "U+DE7D">>,
     <<"U+D81B", "U+DE7E">>, <<"U+D81B", "U+DE7F">>, <<"U+D81B", "U+DEA0">>,
     <<"U+D81B", "U+DEA1">>, <<"U+D81B", "U+DEA2">>, <<"U+D81B", "U+DEA3">>,
     <<"U+D81B", "U+DEA4">>, <<"U+D81B", "U+DEA5">>, <<"U+D81B", "U+DEA6">>,
     <<"U+D81B", "U+DEA7">>, <<"U+D81B", "U+DEA8">>, <<"U+D81B", "U+DEA9">>,
     <<"U+D81B", "U+DEAA">>, <<"U+D81B", "U+DEAB">>, <<"U+D81B", "U+DEAC">>,
     <<"U+D81B", "U+DEAD">>, <<"U+D81B", "U+DEAE">>, <<"U+D81B", "U+DEAF">>,
     <<"U+D81B", "U+DEB0">>, <<"U+D81B", "U+DEB1">>, <<"U+D81B", "U+DEB2">>,
     <<"U+D81B", "U+DEB3">>, <<"U+D81B", "U+DEB4">>, <<"U+D81B", "U+DEB5">>,
     <<"U+D81B", "U+DEB6">>, <<"U+D81B", "U+DEB7">>, <<"U+D81B", "U+DEB8">>,
     <<"U+D81B", "U+DEBB">>, <<"U+D81B", "U+DEBC">>, <<"U+D81B", "U+DEBD">>,
     <<"U+D81B", "U+DEBE">>, <<"U+D81B", "U+DEBF">>, <<"U+D81B", "U+DEC0">>,
     <<"U+D81B", "U+DEC1">>, <<"U+D81B", "U+DEC2">>, <<"U+D81B", "U+DEC3">>,
     <<"U+D81B", "U+DEC4">>, <<"U+D81B", "U+DEC5">>, <<"U+D81B", "U+DEC6">>,
     <<"U+D81B", "U+DEC7">>, <<"U+D81B", "U+DEC8">>, <<"U+D81B", "U+DEC9">>,
     <<"U+D81B", "U+DECA">>, <<"U+D81B", "U+DECB">>, <<"U+D81B", "U+DECC">>,
     <<"U+D81B", "U+DECD">>, <<"U+D81B", "U+DECE">>, <<"U+D81B", "U+DECF">>,
     <<"U+D81B", "U+DED0">>, <<"U+D81B", "U+DED1">>, <<"U+D81B", "U+DED2">>,
     <<"U+D81B", "U+DED3">>, <<"U+D835", "U+DC00">>, <<"U+D835", "U+DC01">>,
     <<"U+D835", "U+DC02">>, <<"U+D835", "U+DC03">>, <<"U+D835", "U+DC04">>,
     <<"U+D835", "U+DC05">>, <<"U+D835", "U+DC06">>, <<"U+D835", "U+DC07">>,
     <<"U+D835", "U+DC08">>, <<"U+D835", "U+DC09">>, <<"U+D835", "U+DC0A">>,
     <<"U+D835", "U+DC0B">>, <<"U+D835", "U+DC0C">>, <<"U+D835", "U+DC0D">>,
     <<"U+D835", "U+DC0E">>, <<"U+D835", "U+DC0F">>, <<"U+D835", "U+DC10">>,
     <<"U+D835", "U+DC11">>, <<"U+D835", "U+DC12">>, <<"U+D835", "U+DC13">>,
     <<"U+D835", "U+DC14">>, <<"U+D835", "U+DC15">>, <<"U+D835", "U+DC16">>,
     <<"U+D835", "U+DC17">>, <<"U+D835", "U+DC18">>, <<"U+D835", "U+DC19">>,
     <<"U+D835", "U+DC1A">>, <<"U+D835", "U+DC1B">>, <<"U+D835", "U+DC1C">>,
     <<"U+D835", "U+DC1D">>, <<"U+D835", "U+DC1E">>, <<"U+D835", "U+DC1F">>,
     <<"U+D835", "U+DC20">>, <<"U+D835", "U+DC21">>, <<"U+D835", "U+DC22">>,
     <<"U+D835", "U+DC23">>, <<"U+D835", "U+DC24">>, <<"U+D835", "U+DC25">>,
     <<"U+D835", "U+DC26">>, <<"U+D835", "U+DC27">>, <<"U+D835", "U+DC28">>,
     <<"U+D835", "U+DC29">>, <<"U+D835", "U+DC2A">>, <<"U+D835", "U+DC2B">>,
     <<"U+D835", "U+DC2C">>, <<"U+D835", "U+DC2D">>, <<"U+D835", "U+DC2E">>,
     <<"U+D835", "U+DC2F">>, <<"U+D835", "U+DC30">>, <<"U+D835", "U+DC31">>,
     <<"U+D835", "U+DC32">>, <<"U+D835", "U+DC33">>, <<"U+D835", "U+DC34">>,
     <<"U+D835", "U+DC35">>, <<"U+D835", "U+DC36">>, <<"U+D835", "U+DC37">>,
     <<"U+D835", "U+DC38">>, <<"U+D835", "U+DC39">>, <<"U+D835", "U+DC3A">>,
     <<"U+D835", "U+DC3B">>, <<"U+D835", "U+DC3C">>, <<"U+D835", "U+DC3D">>,
     <<"U+D835", "U+DC3E">>, <<"U+D835", "U+DC3F">>, <<"U+D835", "U+DC40">>,
     <<"U+D835", "U+DC41">>, <<"U+D835", "U+DC42">>, <<"U+D835", "U+DC43">>,
     <<"U+D835", "U+DC44">>, <<"U+D835", "U+DC45">>, <<"U+D835", "U+DC46">>,
     <<"U+D835", "U+DC47">>, <<"U+D835", "U+DC48">>, <<"U+D835", "U+DC49">>,
     <<"U+D835", "U+DC4A">>, <<"U+D835", "U+DC4B">>, <<"U+D835", "U+DC4C">>,
     <<"U+D835", "U+DC4D">>, <<"U+D835", "U+DC4E">>, <<"U+D835", "U+DC4F">>,
     <<"U+D835", "U+DC50">>, <<"U+D835", "U+DC51">>, <<"U+D835", "U+DC52">>,
     <<"U+D835", "U+DC53">>, <<"U+D835", "U+DC54">>, <<"U+D835", "U+DC56">>,
     <<"U+D835", "U+DC57">>, <<"U+D835", "U+DC58">>, <<"U+D835", "U+DC59">>,
     <<"U+D835", "U+DC5A">>, <<"U+D835", "U+DC5B">>, <<"U+D835", "U+DC5C">>,
     <<"U+D835", "U+DC5D">>, <<"U+D835", "U+DC5E">>, <<"U+D835", "U+DC5F">>,
     <<"U+D835", "U+DC60">>, <<"U+D835", "U+DC61">>, <<"U+D835", "U+DC62">>,
     <<"U+D835", "U+DC63">>, <<"U+D835", "U+DC64">>, <<"U+D835", "U+DC65">>,
     <<"U+D835", "U+DC66">>, <<"U+D835", "U+DC67">>, <<"U+D835", "U+DC68">>,
     <<"U+D835", "U+DC69">>, <<"U+D835", "U+DC6A">>, <<"U+D835", "U+DC6B">>,
     <<"U+D835", "U+DC6C">>, <<"U+D835", "U+DC6D">>, <<"U+D835", "U+DC6E">>,
     <<"U+D835", "U+DC6F">>, <<"U+D835", "U+DC70">>, <<"U+D835", "U+DC71">>,
     <<"U+D835", "U+DC72">>, <<"U+D835", "U+DC73">>, <<"U+D835", "U+DC74">>,
     <<"U+D835", "U+DC75">>, <<"U+D835", "U+DC76">>, <<"U+D835", "U+DC77">>,
     <<"U+D835", "U+DC78">>, <<"U+D835", "U+DC79">>, <<"U+D835", "U+DC7A">>,
     <<"U+D835", "U+DC7B">>, <<"U+D835", "U+DC7C">>, <<"U+D835", "U+DC7D">>,
     <<"U+D835", "U+DC7E">>, <<"U+D835", "U+DC7F">>, <<"U+D835", "U+DC80">>,
     <<"U+D835", "U+DC81">>, <<"U+D835", "U+DC82">>, <<"U+D835", "U+DC83">>,
     <<"U+D835", "U+DC84">>, <<"U+D835", "U+DC85">>, <<"U+D835", "U+DC86">>,
     <<"U+D835", "U+DC87">>, <<"U+D835", "U+DC88">>, <<"U+D835", "U+DC89">>,
     <<"U+D835", "U+DC8A">>, <<"U+D835", "U+DC8B">>, <<"U+D835", "U+DC8C">>,
     <<"U+D835", "U+DC8D">>, <<"U+D835", "U+DC8E">>, <<"U+D835", "U+DC8F">>,
     <<"U+D835", "U+DC90">>, <<"U+D835", "U+DC91">>, <<"U+D835", "U+DC92">>,
     <<"U+D835", "U+DC93">>, <<"U+D835", "U+DC94">>, <<"U+D835", "U+DC95">>,
     <<"U+D835", "U+DC96">>, <<"U+D835", "U+DC97">>, <<"U+D835", "U+DC98">>,
     <<"U+D835", "U+DC99">>, <<"U+D835", "U+DC9A">>, <<"U+D835", "U+DC9B">>,
     <<"U+D835", "U+DC9C">>, <<"U+D835", "U+DC9E">>, <<"U+D835", "U+DC9F">>,
     <<"U+D835", "U+DCA2">>, <<"U+D835", "U+DCA5">>, <<"U+D835", "U+DCA6">>,
     <<"U+D835", "U+DCA9">>, <<"U+D835", "U+DCAA">>, <<"U+D835", "U+DCAB">>,
     <<"U+D835", "U+DCAC">>, <<"U+D835", "U+DCAE">>, <<"U+D835", "U+DCAF">>,
     <<"U+D835", "U+DCB0">>, <<"U+D835", "U+DCB1">>, <<"U+D835", "U+DCB2">>,
     <<"U+D835", "U+DCB3">>, <<"U+D835", "U+DCB4">>, <<"U+D835", "U+DCB5">>,
     <<"U+D835", "U+DCB6">>, <<"U+D835", "U+DCB7">>, <<"U+D835", "U+DCB8">>,
     <<"U+D835", "U+DCB9">>, <<"U+D835", "U+DCBB">>, <<"U+D835", "U+DCBD">>,
     <<"U+D835", "U+DCBE">>, <<"U+D835", "U+DCBF">>, <<"U+D835", "U+DCC0">>,
     <<"U+D835", "U+DCC1">>, <<"U+D835", "U+DCC2">>, <<"U+D835", "U+DCC3">>,
     <<"U+D835", "U+DCC5">>, <<"U+D835", "U+DCC6">>, <<"U+D835", "U+DCC7">>,
     <<"U+D835", "U+DCC8">>, <<"U+D835", "U+DCC9">>, <<"U+D835", "U+DCCA">>,
     <<"U+D835", "U+DCCB">>, <<"U+D835", "U+DCCC">>, <<"U+D835", "U+DCCD">>,
     <<"U+D835", "U+DCCE">>, <<"U+D835", "U+DCCF">>, <<"U+D835", "U+DCD0">>,
     <<"U+D835", "U+DCD1">>, <<"U+D835", "U+DCD2">>, <<"U+D835", "U+DCD3">>,
     <<"U+D835", "U+DCD4">>, <<"U+D835", "U+DCD5">>, <<"U+D835", "U+DCD6">>,
     <<"U+D835", "U+DCD7">>, <<"U+D835", "U+DCD8">>, <<"U+D835", "U+DCD9">>,
     <<"U+D835", "U+DCDA">>, <<"U+D835", "U+DCDB">>, <<"U+D835", "U+DCDC">>,
     <<"U+D835", "U+DCDD">>, <<"U+D835", "U+DCDE">>, <<"U+D835", "U+DCDF">>,
     <<"U+D835", "U+DCE0">>, <<"U+D835", "U+DCE1">>, <<"U+D835", "U+DCE2">>,
     <<"U+D835", "U+DCE3">>, <<"U+D835", "U+DCE4">>, <<"U+D835", "U+DCE5">>,
     <<"U+D835", "U+DCE6">>, <<"U+D835", "U+DCE7">>, <<"U+D835", "U+DCE8">>,
     <<"U+D835", "U+DCE9">>, <<"U+D835", "U+DCEA">>, <<"U+D835", "U+DCEB">>,
     <<"U+D835", "U+DCEC">>, <<"U+D835", "U+DCED">>, <<"U+D835", "U+DCEE">>,
     <<"U+D835", "U+DCEF">>, <<"U+D835", "U+DCF0">>, <<"U+D835", "U+DCF1">>,
     <<"U+D835", "U+DCF2">>, <<"U+D835", "U+DCF3">>, <<"U+D835", "U+DCF4">>,
     <<"U+D835", "U+DCF5">>, <<"U+D835", "U+DCF6">>, <<"U+D835", "U+DCF7">>,
     <<"U+D835", "U+DCF8">>, <<"U+D835", "U+DCF9">>, <<"U+D835", "U+DCFA">>,
     <<"U+D835", "U+DCFB">>, <<"U+D835", "U+DCFC">>, <<"U+D835", "U+DCFD">>,
     <<"U+D835", "U+DCFE">>, <<"U+D835", "U+DCFF">>, <<"U+D835", "U+DD00">>,
     <<"U+D835", "U+DD01">>, <<"U+D835", "U+DD02">>, <<"U+D835", "U+DD03">>,
     <<"U+D835", "U+DD04">>, <<"U+D835", "U+DD05">>, <<"U+D835", "U+DD07">>,
     <<"U+D835", "U+DD08">>, <<"U+D835", "U+DD09">>, <<"U+D835", "U+DD0A">>,
     <<"U+D835", "U+DD0D">>, <<"U+D835", "U+DD0E">>, <<"U+D835", "U+DD0F">>,
     <<"U+D835", "U+DD10">>, <<"U+D835", "U+DD11">>, <<"U+D835", "U+DD12">>,
     <<"U+D835", "U+DD13">>, <<"U+D835", "U+DD14">>, <<"U+D835", "U+DD16">>,
     <<"U+D835", "U+DD17">>, <<"U+D835", "U+DD18">>, <<"U+D835", "U+DD19">>,
     <<"U+D835", "U+DD1A">>, <<"U+D835", "U+DD1B">>, <<"U+D835", "U+DD1C">>,
     <<"U+D835", "U+DD1E">>, <<"U+D835", "U+DD1F">>, <<"U+D835", "U+DD20">>,
     <<"U+D835", "U+DD21">>, <<"U+D835", "U+DD22">>, <<"U+D835", "U+DD23">>,
     <<"U+D835", "U+DD24">>, <<"U+D835", "U+DD25">>, <<"U+D835", "U+DD26">>,
     <<"U+D835", "U+DD27">>, <<"U+D835", "U+DD28">>, <<"U+D835", "U+DD29">>,
     <<"U+D835", "U+DD2A">>, <<"U+D835", "U+DD2B">>, <<"U+D835", "U+DD2C">>,
     <<"U+D835", "U+DD2D">>, <<"U+D835", "U+DD2E">>, <<"U+D835", "U+DD2F">>,
     <<"U+D835", "U+DD30">>, <<"U+D835", "U+DD31">>, <<"U+D835", "U+DD32">>,
     <<"U+D835", "U+DD33">>, <<"U+D835", "U+DD34">>, <<"U+D835", "U+DD35">>,
     <<"U+D835", "U+DD36">>, <<"U+D835", "U+DD37">>, <<"U+D835", "U+DD38">>,
     <<"U+D835", "U+DD39">>, <<"U+D835", "U+DD3B">>, <<"U+D835", "U+DD3C">>,
     <<"U+D835", "U+DD3D">>, <<"U+D835", "U+DD3E">>, <<"U+D835", "U+DD40">>,
     <<"U+D835", "U+DD41">>, <<"U+D835", "U+DD42">>, <<"U+D835", "U+DD43">>,
     <<"U+D835", "U+DD44">>, <<"U+D835", "U+DD46">>, <<"U+D835", "U+DD4A">>,
     <<"U+D835", "U+DD4B">>, <<"U+D835", "U+DD4C">>, <<"U+D835", "U+DD4D">>,
     <<"U+D835", "U+DD4E">>, <<"U+D835", "U+DD4F">>, <<"U+D835", "U+DD50">>,
     <<"U+D835", "U+DD52">>, <<"U+D835", "U+DD53">>, <<"U+D835", "U+DD54">>,
     <<"U+D835", "U+DD55">>, <<"U+D835", "U+DD56">>, <<"U+D835", "U+DD57">>,
     <<"U+D835", "U+DD58">>, <<"U+D835", "U+DD59">>, <<"U+D835", "U+DD5A">>,
     <<"U+D835", "U+DD5B">>, <<"U+D835", "U+DD5C">>, <<"U+D835", "U+DD5D">>,
     <<"U+D835", "U+DD5E">>, <<"U+D835", "U+DD5F">>, <<"U+D835", "U+DD60">>,
     <<"U+D835", "U+DD61">>, <<"U+D835", "U+DD62">>, <<"U+D835", "U+DD63">>,
     <<"U+D835", "U+DD64">>, <<"U+D835", "U+DD65">>, <<"U+D835", "U+DD66">>,
     <<"U+D835", "U+DD67">>, <<"U+D835", "U+DD68">>, <<"U+D835", "U+DD69">>,
     <<"U+D835", "U+DD6A">>, <<"U+D835", "U+DD6B">>, <<"U+D835", "U+DD6C">>,
     <<"U+D835", "U+DD6D">>, <<"U+D835", "U+DD6E">>, <<"U+D835", "U+DD6F">>,
     <<"U+D835", "U+DD70">>, <<"U+D835", "U+DD71">>, <<"U+D835", "U+DD72">>,
     <<"U+D835", "U+DD73">>, <<"U+D835", "U+DD74">>, <<"U+D835", "U+DD75">>,
     <<"U+D835", "U+DD76">>, <<"U+D835", "U+DD77">>, <<"U+D835", "U+DD78">>,
     <<"U+D835", "U+DD79">>, <<"U+D835", "U+DD7A">>, <<"U+D835", "U+DD7B">>,
     <<"U+D835", "U+DD7C">>, <<"U+D835", "U+DD7D">>, <<"U+D835", "U+DD7E">>,
     <<"U+D835", "U+DD7F">>, <<"U+D835", "U+DD80">>, <<"U+D835", "U+DD81">>,
     <<"U+D835", "U+DD82">>, <<"U+D835", "U+DD83">>, <<"U+D835", "U+DD84">>,
     <<"U+D835", "U+DD85">>, <<"U+D835", "U+DD86">>, <<"U+D835", "U+DD87">>,
     <<"U+D835", "U+DD88">>, <<"U+D835", "U+DD89">>, <<"U+D835", "U+DD8A">>,
     <<"U+D835", "U+DD8B">>, <<"U+D835", "U+DD8C">>, <<"U+D835", "U+DD8D">>,
     <<"U+D835", "U+DD8E">>, <<"U+D835", "U+DD8F">>, <<"U+D835", "U+DD90">>,
     <<"U+D835", "U+DD91">>, <<"U+D835", "U+DD92">>, <<"U+D835", "U+DD93">>,
     <<"U+D835", "U+DD94">>, <<"U+D835", "U+DD95">>, <<"U+D835", "U+DD96">>,
     <<"U+D835", "U+DD97">>, <<"U+D835", "U+DD98">>, <<"U+D835", "U+DD99">>,
     <<"U+D835", "U+DD9A">>, <<"U+D835", "U+DD9B">>, <<"U+D835", "U+DD9C">>,
     <<"U+D835", "U+DD9D">>, <<"U+D835", "U+DD9E">>, <<"U+D835", "U+DD9F">>,
     <<"U+D835", "U+DDA0">>, <<"U+D835", "U+DDA1">>, <<"U+D835", "U+DDA2">>,
     <<"U+D835", "U+DDA3">>, <<"U+D835", "U+DDA4">>, <<"U+D835", "U+DDA5">>,
     <<"U+D835", "U+DDA6">>, <<"U+D835", "U+DDA7">>, <<"U+D835", "U+DDA8">>,
     <<"U+D835", "U+DDA9">>, <<"U+D835", "U+DDAA">>, <<"U+D835", "U+DDAB">>,
     <<"U+D835", "U+DDAC">>, <<"U+D835", "U+DDAD">>, <<"U+D835", "U+DDAE">>,
     <<"U+D835", "U+DDAF">>, <<"U+D835", "U+DDB0">>, <<"U+D835", "U+DDB1">>,
     <<"U+D835", "U+DDB2">>, <<"U+D835", "U+DDB3">>, <<"U+D835", "U+DDB4">>,
     <<"U+D835", "U+DDB5">>, <<"U+D835", "U+DDB6">>, <<"U+D835", "U+DDB7">>,
     <<"U+D835", "U+DDB8">>, <<"U+D835", "U+DDB9">>, <<"U+D835", "U+DDBA">>,
     <<"U+D835", "U+DDBB">>, <<"U+D835", "U+DDBC">>, <<"U+D835", "U+DDBD">>,
     <<"U+D835", "U+DDBE">>, <<"U+D835", "U+DDBF">>, <<"U+D835", "U+DDC0">>,
     <<"U+D835", "U+DDC1">>, <<"U+D835", "U+DDC2">>, <<"U+D835", "U+DDC3">>,
     <<"U+D835", "U+DDC4">>, <<"U+D835", "U+DDC5">>, <<"U+D835", "U+DDC6">>,
     <<"U+D835", "U+DDC7">>, <<"U+D835", "U+DDC8">>, <<"U+D835", "U+DDC9">>,
     <<"U+D835", "U+DDCA">>, <<"U+D835", "U+DDCB">>, <<"U+D835", "U+DDCC">>,
     <<"U+D835", "U+DDCD">>, <<"U+D835", "U+DDCE">>, <<"U+D835", "U+DDCF">>,
     <<"U+D835", "U+DDD0">>, <<"U+D835", "U+DDD1">>, <<"U+D835", "U+DDD2">>,
     <<"U+D835", "U+DDD3">>, <<"U+D835", "U+DDD4">>, <<"U+D835", "U+DDD5">>,
     <<"U+D835", "U+DDD6">>, <<"U+D835", "U+DDD7">>, <<"U+D835", "U+DDD8">>,
     <<"U+D835", "U+DDD9">>, <<"U+D835", "U+DDDA">>, <<"U+D835", "U+DDDB">>,
     <<"U+D835", "U+DDDC">>, <<"U+D835", "U+DDDD">>, <<"U+D835", "U+DDDE">>,
     <<"U+D835", "U+DDDF">>, <<"U+D835", "U+DDE0">>, <<"U+D835", "U+DDE1">>,
     <<"U+D835", "U+DDE2">>, <<"U+D835", "U+DDE3">>, <<"U+D835", "U+DDE4">>,
     <<"U+D835", "U+DDE5">>, <<"U+D835", "U+DDE6">>, <<"U+D835", "U+DDE7">>,
     <<"U+D835", "U+DDE8">>, <<"U+D835", "U+DDE9">>, <<"U+D835", "U+DDEA">>,
     <<"U+D835", "U+DDEB">>, <<"U+D835", "U+DDEC">>, <<"U+D835", "U+DDED">>,
     <<"U+D835", "U+DDEE">>, <<"U+D835", "U+DDEF">>, <<"U+D835", "U+DDF0">>,
     <<"U+D835", "U+DDF1">>, <<"U+D835", "U+DDF2">>, <<"U+D835", "U+DDF3">>,
     <<"U+D835", "U+DDF4">>, <<"U+D835", "U+DDF5">>, <<"U+D835", "U+DDF6">>,
     <<"U+D835", "U+DDF7">>, <<"U+D835", "U+DDF8">>, <<"U+D835", "U+DDF9">>,
     <<"U+D835", "U+DDFA">>, <<"U+D835", "U+DDFB">>, <<"U+D835", "U+DDFC">>,
     <<"U+D835", "U+DDFD">>, <<"U+D835", "U+DDFE">>, <<"U+D835", "U+DDFF">>,
     <<"U+D835", "U+DE00">>, <<"U+D835", "U+DE01">>, <<"U+D835", "U+DE02">>,
     <<"U+D835", "U+DE03">>, <<"U+D835", "U+DE04">>, <<"U+D835", "U+DE05">>,
     <<"U+D835", "U+DE06">>, <<"U+D835", "U+DE07">>, <<"U+D835", "U+DE08">>,
     <<"U+D835", "U+DE09">>, <<"U+D835", "U+DE0A">>, <<"U+D835", "U+DE0B">>,
     <<"U+D835", "U+DE0C">>, <<"U+D835", "U+DE0D">>, <<"U+D835", "U+DE0E">>,
     <<"U+D835", "U+DE0F">>, <<"U+D835", "U+DE10">>, <<"U+D835", "U+DE11">>,
     <<"U+D835", "U+DE12">>, <<"U+D835", "U+DE13">>, <<"U+D835", "U+DE14">>,
     <<"U+D835", "U+DE15">>, <<"U+D835", "U+DE16">>, <<"U+D835", "U+DE17">>,
     <<"U+D835", "U+DE18">>, <<"U+D835", "U+DE19">>, <<"U+D835", "U+DE1A">>,
     <<"U+D835", "U+DE1B">>, <<"U+D835", "U+DE1C">>, <<"U+D835", "U+DE1D">>,
     <<"U+D835", "U+DE1E">>, <<"U+D835", "U+DE1F">>, <<"U+D835", "U+DE20">>,
     <<"U+D835", "U+DE21">>, <<"U+D835", "U+DE22">>, <<"U+D835", "U+DE23">>,
     <<"U+D835", "U+DE24">>, <<"U+D835", "U+DE25">>, <<"U+D835", "U+DE26">>,
     <<"U+D835", "U+DE27">>, <<"U+D835", "U+DE28">>, <<"U+D835", "U+DE29">>,
     <<"U+D835", "U+DE2A">>, <<"U+D835", "U+DE2B">>, <<"U+D835", "U+DE2C">>,
     <<"U+D835", "U+DE2D">>, <<"U+D835", "U+DE2E">>, <<"U+D835", "U+DE2F">>,
     <<"U+D835", "U+DE30">>, <<"U+D835", "U+DE31">>, <<"U+D835", "U+DE32">>,
     <<"U+D835", "U+DE33">>, <<"U+D835", "U+DE34">>, <<"U+D835", "U+DE35">>,
     <<"U+D835", "U+DE36">>, <<"U+D835", "U+DE37">>, <<"U+D835", "U+DE38">>,
     <<"U+D835", "U+DE39">>, <<"U+D835", "U+DE3A">>, <<"U+D835", "U+DE3B">>,
     <<"U+D835", "U+DE3C">>, <<"U+D835", "U+DE3D">>, <<"U+D835", "U+DE3E">>,
     <<"U+D835", "U+DE3F">>, <<"U+D835", "U+DE40">>, <<"U+D835", "U+DE41">>,
     <<"U+D835", "U+DE42">>, <<"U+D835", "U+DE43">>, <<"U+D835", "U+DE44">>,
     <<"U+D835", "U+DE45">>, <<"U+D835", "U+DE46">>, <<"U+D835", "U+DE47">>,
     <<"U+D835", "U+DE48">>, <<"U+D835", "U+DE49">>, <<"U+D835", "U+DE4A">>,
     <<"U+D835", "U+DE4B">>, <<"U+D835", "U+DE4C">>, <<"U+D835", "U+DE4D">>,
     <<"U+D835", "U+DE4E">>, <<"U+D835", "U+DE4F">>, <<"U+D835", "U+DE50">>,
     <<"U+D835", "U+DE51">>, <<"U+D835", "U+DE52">>, <<"U+D835", "U+DE53">>,
     <<"U+D835", "U+DE54">>, <<"U+D835", "U+DE55">>, <<"U+D835", "U+DE56">>,
     <<"U+D835", "U+DE57">>, <<"U+D835", "U+DE58">>, <<"U+D835", "U+DE59">>,
     <<"U+D835", "U+DE5A">>, <<"U+D835", "U+DE5B">>, <<"U+D835", "U+DE5C">>,
     <<"U+D835", "U+DE5D">>, <<"U+D835", "U+DE5E">>, <<"U+D835", "U+DE5F">>,
     <<"U+D835", "U+DE60">>, <<"U+D835", "U+DE61">>, <<"U+D835", "U+DE62">>,
     <<"U+D835", "U+DE63">>, <<"U+D835", "U+DE64">>, <<"U+D835", "U+DE65">>,
     <<"U+D835", "U+DE66">>, <<"U+D835", "U+DE67">>, <<"U+D835", "U+DE68">>,
     <<"U+D835", "U+DE69">>, <<"U+D835", "U+DE6A">>, <<"U+D835", "U+DE6B">>,
     <<"U+D835", "U+DE6C">>, <<"U+D835", "U+DE6D">>, <<"U+D835", "U+DE6E">>,
     <<"U+D835", "U+DE6F">>, <<"U+D835", "U+DE70">>, <<"U+D835", "U+DE71">>,
     <<"U+D835", "U+DE72">>, <<"U+D835", "U+DE73">>, <<"U+D835", "U+DE74">>,
     <<"U+D835", "U+DE75">>, <<"U+D835", "U+DE76">>, <<"U+D835", "U+DE77">>,
     <<"U+D835", "U+DE78">>, <<"U+D835", "U+DE79">>, <<"U+D835", "U+DE7A">>,
     <<"U+D835", "U+DE7B">>, <<"U+D835", "U+DE7C">>, <<"U+D835", "U+DE7D">>,
     <<"U+D835", "U+DE7E">>, <<"U+D835", "U+DE7F">>, <<"U+D835", "U+DE80">>,
     <<"U+D835", "U+DE81">>, <<"U+D835", "U+DE82">>, <<"U+D835", "U+DE83">>,
     <<"U+D835", "U+DE84">>, <<"U+D835", "U+DE85">>, <<"U+D835", "U+DE86">>,
     <<"U+D835", "U+DE87">>, <<"U+D835", "U+DE88">>, <<"U+D835", "U+DE89">>,
     <<"U+D835", "U+DE8A">>, <<"U+D835", "U+DE8B">>, <<"U+D835", "U+DE8C">>,
     <<"U+D835", "U+DE8D">>, <<"U+D835", "U+DE8E">>, <<"U+D835", "U+DE8F">>,
     <<"U+D835", "U+DE90">>, <<"U+D835", "U+DE91">>, <<"U+D835", "U+DE92">>,
     <<"U+D835", "U+DE93">>, <<"U+D835", "U+DE94">>, <<"U+D835", "U+DE95">>,
     <<"U+D835", "U+DE96">>, <<"U+D835", "U+DE97">>, <<"U+D835", "U+DE98">>,
     <<"U+D835", "U+DE99">>, <<"U+D835", "U+DE9A">>, <<"U+D835", "U+DE9B">>,
     <<"U+D835", "U+DE9C">>, <<"U+D835", "U+DE9D">>, <<"U+D835", "U+DE9E">>,
     <<"U+D835", "U+DE9F">>, <<"U+D835", "U+DEA0">>, <<"U+D835", "U+DEA1">>,
     <<"U+D835", "U+DEA2">>, <<"U+D835", "U+DEA3">>, <<"U+D835", "U+DEA4">>,
     <<"U+D835", "U+DEA5">>, <<"U+D835", "U+DEA8">>, <<"U+D835", "U+DEA9">>,
     <<"U+D835", "U+DEAA">>, <<"U+D835", "U+DEAB">>, <<"U+D835", "U+DEAC">>,
     <<"U+D835", "U+DEAD">>, <<"U+D835", "U+DEAE">>, <<"U+D835", "U+DEAF">>,
     <<"U+D835", "U+DEB0">>, <<"U+D835", "U+DEB1">>, <<"U+D835", "U+DEB2">>,
     <<"U+D835", "U+DEB3">>, <<"U+D835", "U+DEB4">>, <<"U+D835", "U+DEB5">>,
     <<"U+D835", "U+DEB6">>, <<"U+D835", "U+DEB7">>, <<"U+D835", "U+DEB8">>,
     <<"U+D835", "U+DEB9">>, <<"U+D835", "U+DEBA">>, <<"U+D835", "U+DEBB">>,
     <<"U+D835", "U+DEBC">>, <<"U+D835", "U+DEBD">>, <<"U+D835", "U+DEBE">>,
     <<"U+D835", "U+DEBF">>, <<"U+D835", "U+DEC0">>, <<"U+D835", "U+DEC2">>,
     <<"U+D835", "U+DEC3">>, <<"U+D835", "U+DEC4">>, <<"U+D835", "U+DEC5">>,
     <<"U+D835", "U+DEC6">>, <<"U+D835", "U+DEC7">>, <<"U+D835", "U+DEC8">>,
     <<"U+D835", "U+DEC9">>, <<"U+D835", "U+DECA">>, <<"U+D835", "U+DECB">>,
     <<"U+D835", "U+DECC">>, <<"U+D835", "U+DECD">>, <<"U+D835", "U+DECE">>,
     <<"U+D835", "U+DECF">>, <<"U+D835", "U+DED0">>, <<"U+D835", "U+DED1">>,
     <<"U+D835", "U+DED2">>, <<"U+D835", "U+DED3">>, <<"U+D835", "U+DED4">>,
     <<"U+D835", "U+DED5">>, <<"U+D835", "U+DED6">>, <<"U+D835", "U+DED7">>,
     <<"U+D835", "U+DED8">>, <<"U+D835", "U+DED9">>, <<"U+D835", "U+DEDA">>,
     <<"U+D835", "U+DEDC">>, <<"U+D835", "U+DEDD">>, <<"U+D835", "U+DEDE">>,
     <<"U+D835", "U+DEDF">>, <<"U+D835", "U+DEE0">>, <<"U+D835", "U+DEE1">>,
     <<"U+D835", "U+DEE2">>, <<"U+D835", "U+DEE3">>, <<"U+D835", "U+DEE4">>,
     <<"U+D835", "U+DEE5">>, <<"U+D835", "U+DEE6">>, <<"U+D835", "U+DEE7">>,
     <<"U+D835", "U+DEE8">>, <<"U+D835", "U+DEE9">>, <<"U+D835", "U+DEEA">>,
     <<"U+D835", "U+DEEB">>, <<"U+D835", "U+DEEC">>, <<"U+D835", "U+DEED">>,
     <<"U+D835", "U+DEEE">>, <<"U+D835", "U+DEEF">>, <<"U+D835", "U+DEF0">>,
     <<"U+D835", "U+DEF1">>, <<"U+D835", "U+DEF2">>, <<"U+D835", "U+DEF3">>,
     <<"U+D835", "U+DEF4">>, <<"U+D835", "U+DEF5">>, <<"U+D835", "U+DEF6">>,
     <<"U+D835", "U+DEF7">>, <<"U+D835", "U+DEF8">>, <<"U+D835", "U+DEF9">>,
     <<"U+D835", "U+DEFA">>, <<"U+D835", "U+DEFC">>, <<"U+D835", "U+DEFD">>,
     <<"U+D835", "U+DEFE">>, <<"U+D835", "U+DEFF">>, <<"U+D835", "U+DF00">>,
     <<"U+D835", "U+DF01">>, <<"U+D835", "U+DF02">>, <<"U+D835", "U+DF03">>,
     <<"U+D835", "U+DF04">>, <<"U+D835", "U+DF05">>, <<"U+D835", "U+DF06">>,
     <<"U+D835", "U+DF07">>, <<"U+D835", "U+DF08">>, <<"U+D835", "U+DF09">>,
     <<"U+D835", "U+DF0A">>, <<"U+D835", "U+DF0B">>, <<"U+D835", "U+DF0C">>,
     <<"U+D835", "U+DF0D">>, <<"U+D835", "U+DF0E">>, <<"U+D835", "U+DF0F">>,
     <<"U+D835", "U+DF10">>, <<"U+D835", "U+DF11">>, <<"U+D835", "U+DF12">>,
     <<"U+D835", "U+DF13">>, <<"U+D835", "U+DF14">>, <<"U+D835", "U+DF16">>,
     <<"U+D835", "U+DF17">>, <<"U+D835", "U+DF18">>, <<"U+D835", "U+DF19">>,
     <<"U+D835", "U+DF1A">>, <<"U+D835", "U+DF1B">>, <<"U+D835", "U+DF1C">>,
     <<"U+D835", "U+DF1D">>, <<"U+D835", "U+DF1E">>, <<"U+D835", "U+DF1F">>,
     <<"U+D835", "U+DF20">>, <<"U+D835", "U+DF21">>, <<"U+D835", "U+DF22">>,
     <<"U+D835", "U+DF23">>, <<"U+D835", "U+DF24">>, <<"U+D835", "U+DF25">>,
     <<"U+D835", "U+DF26">>, <<"U+D835", "U+DF27">>, <<"U+D835", "U+DF28">>,
     <<"U+D835", "U+DF29">>, <<"U+D835", "U+DF2A">>, <<"U+D835", "U+DF2B">>,
     <<"U+D835", "U+DF2C">>, <<"U+D835", "U+DF2D">>, <<"U+D835", "U+DF2E">>,
     <<"U+D835", "U+DF2F">>, <<"U+D835", "U+DF30">>, <<"U+D835", "U+DF31">>,
     <<"U+D835", "U+DF32">>, <<"U+D835", "U+DF33">>, <<"U+D835", "U+DF34">>,
     <<"U+D835", "U+DF36">>, <<"U+D835", "U+DF37">>, <<"U+D835", "U+DF38">>,
     <<"U+D835", "U+DF39">>, <<"U+D835", "U+DF3A">>, <<"U+D835", "U+DF3B">>,
     <<"U+D835", "U+DF3C">>, <<"U+D835", "U+DF3D">>, <<"U+D835", "U+DF3E">>,
     <<"U+D835", "U+DF3F">>, <<"U+D835", "U+DF40">>, <<"U+D835", "U+DF41">>,
     <<"U+D835", "U+DF42">>, <<"U+D835", "U+DF43">>, <<"U+D835", "U+DF44">>,
     <<"U+D835", "U+DF45">>, <<"U+D835", "U+DF46">>, <<"U+D835", "U+DF47">>,
     <<"U+D835", "U+DF48">>, <<"U+D835", "U+DF49">>, <<"U+D835", "U+DF4A">>,
     <<"U+D835", "U+DF4B">>, <<"U+D835", "U+DF4C">>, <<"U+D835", "U+DF4D">>,
     <<"U+D835", "U+DF4E">>, <<"U+D835", "U+DF50">>, <<"U+D835", "U+DF51">>,
     <<"U+D835", "U+DF52">>, <<"U+D835", "U+DF53">>, <<"U+D835", "U+DF54">>,
     <<"U+D835", "U+DF55">>, <<"U+D835", "U+DF56">>, <<"U+D835", "U+DF57">>,
     <<"U+D835", "U+DF58">>, <<"U+D835", "U+DF59">>, <<"U+D835", "U+DF5A">>,
     <<"U+D835", "U+DF5B">>, <<"U+D835", "U+DF5C">>, <<"U+D835", "U+DF5D">>,
     <<"U+D835", "U+DF5E">>, <<"U+D835", "U+DF5F">>, <<"U+D835", "U+DF60">>,
     <<"U+D835", "U+DF61">>, <<"U+D835", "U+DF62">>, <<"U+D835", "U+DF63">>,
     <<"U+D835", "U+DF64">>, <<"U+D835", "U+DF65">>, <<"U+D835", "U+DF66">>,
     <<"U+D835", "U+DF67">>, <<"U+D835", "U+DF68">>, <<"U+D835", "U+DF69">>,
     <<"U+D835", "U+DF6A">>, <<"U+D835", "U+DF6B">>, <<"U+D835", "U+DF6C">>,
     <<"U+D835", "U+DF6D">>, <<"U+D835", "U+DF6E">>, <<"U+D835", "U+DF70">>,
     <<"U+D835", "U+DF71">>, <<"U+D835", "U+DF72">>, <<"U+D835", "U+DF73">>,
     <<"U+D835", "U+DF74">>, <<"U+D835", "U+DF75">>, <<"U+D835", "U+DF76">>,
     <<"U+D835", "U+DF77">>, <<"U+D835", "U+DF78">>, <<"U+D835", "U+DF79">>,
     <<"U+D835", "U+DF7A">>, <<"U+D835", "U+DF7B">>, <<"U+D835", "U+DF7C">>,
     <<"U+D835", "U+DF7D">>, <<"U+D835", "U+DF7E">>, <<"U+D835", "U+DF7F">>,
     <<"U+D835", "U+DF80">>, <<"U+D835", "U+DF81">>, <<"U+D835", "U+DF82">>,
     <<"U+D835", "U+DF83">>, <<"U+D835", "U+DF84">>, <<"U+D835", "U+DF85">>,
     <<"U+D835", "U+DF86">>, <<"U+D835", "U+DF87">>, <<"U+D835", "U+DF88">>,
     <<"U+D835", "U+DF8A">>, <<"U+D835", "U+DF8B">>, <<"U+D835", "U+DF8C">>,
     <<"U+D835", "U+DF8D">>, <<"U+D835", "U+DF8E">>, <<"U+D835", "U+DF8F">>,
     <<"U+D835", "U+DF90">>, <<"U+D835", "U+DF91">>, <<"U+D835", "U+DF92">>,
     <<"U+D835", "U+DF93">>, <<"U+D835", "U+DF94">>, <<"U+D835", "U+DF95">>,
     <<"U+D835", "U+DF96">>, <<"U+D835", "U+DF97">>, <<"U+D835", "U+DF98">>,
     <<"U+D835", "U+DF99">>, <<"U+D835", "U+DF9A">>, <<"U+D835", "U+DF9B">>,
     <<"U+D835", "U+DF9C">>, <<"U+D835", "U+DF9D">>, <<"U+D835", "U+DF9E">>,
     <<"U+D835", "U+DF9F">>, <<"U+D835", "U+DFA0">>, <<"U+D835", "U+DFA1">>,
     <<"U+D835", "U+DFA2">>, <<"U+D835", "U+DFA3">>, <<"U+D835", "U+DFA4">>,
     <<"U+D835", "U+DFA5">>, <<"U+D835", "U+DFA6">>, <<"U+D835", "U+DFA7">>,
     <<"U+D835", "U+DFA8">>, <<"U+D835", "U+DFAA">>, <<"U+D835", "U+DFAB">>,
     <<"U+D835", "U+DFAC">>, <<"U+D835", "U+DFAD">>, <<"U+D835", "U+DFAE">>,
     <<"U+D835", "U+DFAF">>, <<"U+D835", "U+DFB0">>, <<"U+D835", "U+DFB1">>,
     <<"U+D835", "U+DFB2">>, <<"U+D835", "U+DFB3">>, <<"U+D835", "U+DFB4">>,
     <<"U+D835", "U+DFB5">>, <<"U+D835", "U+DFB6">>, <<"U+D835", "U+DFB7">>,
     <<"U+D835", "U+DFB8">>, <<"U+D835", "U+DFB9">>, <<"U+D835", "U+DFBA">>,
     <<"U+D835", "U+DFBB">>, <<"U+D835", "U+DFBC">>, <<"U+D835", "U+DFBD">>,
     <<"U+D835", "U+DFBE">>, <<"U+D835", "U+DFBF">>, <<"U+D835", "U+DFC0">>,
     <<"U+D835", "U+DFC1">>, <<"U+D835", "U+DFC2">>, <<"U+D835", "U+DFC4">>,
     <<"U+D835", "U+DFC5">>, <<"U+D835", "U+DFC6">>, <<"U+D835", "U+DFC7">>,
     <<"U+D835", "U+DFC8">>, <<"U+D835", "U+DFC9">>, <<"U+D835", "U+DFCA">>,
     <<"U+D835", "U+DFCB">>, <<"U+D837", "U+DF00">>, <<"U+D837", "U+DF01">>,
     <<"U+D837", "U+DF02">>, <<"U+D837", "U+DF03">>, <<"U+D837", "U+DF04">>,
     <<"U+D837", "U+DF05">>, <<"U+D837", "U+DF06">>, <<"U+D837", "U+DF07">>,
     <<"U+D837", "U+DF08">>, <<"U+D837", "U+DF09">>, <<"U+D837", "U+DF0B">>,
     <<"U+D837", "U+DF0C">>, <<"U+D837", "U+DF0D">>, <<"U+D837", "U+DF0E">>,
     <<"U+D837", "U+DF0F">>, <<"U+D837", "U+DF10">>, <<"U+D837", "U+DF11">>,
     <<"U+D837", "U+DF12">>, <<"U+D837", "U+DF13">>, <<"U+D837", "U+DF14">>,
     <<"U+D837", "U+DF15">>, <<"U+D837", "U+DF16">>, <<"U+D837", "U+DF17">>,
     <<"U+D837", "U+DF18">>, <<"U+D837", "U+DF19">>, <<"U+D837", "U+DF1A">>,
     <<"U+D837", "U+DF1B">>, <<"U+D837", "U+DF1C">>, <<"U+D837", "U+DF1D">>,
     <<"U+D837", "U+DF1E">>, <<"U+D837", "U+DF25">>, <<"U+D837", "U+DF26">>,
     <<"U+D837", "U+DF27">>, <<"U+D837", "U+DF28">>, <<"U+D837", "U+DF29">>,
     <<"U+D837", "U+DF2A">>, <<"U+D83A", "U+DD00">>, <<"U+D83A", "U+DD01">>,
     <<"U+D83A", "U+DD02">>, <<"U+D83A", "U+DD03">>, <<"U+D83A", "U+DD04">>,
     <<"U+D83A", "U+DD05">>, <<"U+D83A", "U+DD06">>, <<"U+D83A", "U+DD07">>,
     <<"U+D83A", "U+DD08">>, <<"U+D83A", "U+DD09">>, <<"U+D83A", "U+DD0A">>,
     <<"U+D83A", "U+DD0B">>, <<"U+D83A", "U+DD0C">>, <<"U+D83A", "U+DD0D">>,
     <<"U+D83A", "U+DD0E">>, <<"U+D83A", "U+DD0F">>, <<"U+D83A", "U+DD10">>,
     <<"U+D83A", "U+DD11">>, <<"U+D83A", "U+DD12">>, <<"U+D83A", "U+DD13">>,
     <<"U+D83A", "U+DD14">>, <<"U+D83A", "U+DD15">>, <<"U+D83A", "U+DD16">>,
     <<"U+D83A", "U+DD17">>, <<"U+D83A", "U+DD18">>, <<"U+D83A", "U+DD19">>,
     <<"U+D83A", "U+DD1A">>, <<"U+D83A", "U+DD1B">>, <<"U+D83A", "U+DD1C">>,
     <<"U+D83A", "U+DD1D">>, <<"U+D83A", "U+DD1E">>, <<"U+D83A", "U+DD1F">>,
     <<"U+D83A", "U+DD20">>, <<"U+D83A", "U+DD21">>, <<"U+D83A", "U+DD22">>,
     <<"U+D83A", "U+DD23">>, <<"U+D83A", "U+DD24">>, <<"U+D83A", "U+DD25">>,
     <<"U+D83A", "U+DD26">>, <<"U+D83A", "U+DD27">>, <<"U+D83A", "U+DD28">>,
     <<"U+D83A", "U+DD29">>, <<"U+D83A", "U+DD2A">>, <<"U+D83A", "U+DD2B">>,
     <<"U+D83A", "U+DD2C">>, <<"U+D83A", "U+DD2D">>, <<"U+D83A", "U+DD2E">>,
     <<"U+D83A", "U+DD2F">>, <<"U+D83A", "U+DD30">>, <<"U+D83A", "U+DD31">>,
     <<"U+D83A", "U+DD32">>, <<"U+D83A", "U+DD33">>, <<"U+D83A", "U+DD34">>,
     <<"U+D83A", "U+DD35">>, <<"U+D83A", "U+DD36">>, <<"U+D83A", "U+DD37">>,
     <<"U+D83A", "U+DD38">>, <<"U+D83A", "U+DD39">>, <<"U+D83A", "U+DD3A">>,
     <<"U+D83A", "U+DD3B">>, <<"U+D83A", "U+DD3C">>, <<"U+D83A", "U+DD3D">>,
     <<"U+D83A", "U+DD3E">>, <<"U+D83A", "U+DD3F">>, <<"U+D83A", "U+DD40">>,
     <<"U+D83A", "U+DD41">>, <<"U+D83A", "U+DD42">>, <<"U+D83A", "U+DD43">>,
     <<"U+D83C", "U+DD30">>, <<"U+D83C", "U+DD31">>, <<"U+D83C", "U+DD32">>,
     <<"U+D83C", "U+DD33">>, <<"U+D83C", "U+DD34">>, <<"U+D83C", "U+DD35">>,
     <<"U+D83C", "U+DD36">>, <<"U+D83C", "U+DD37">>, <<"U+D83C", "U+DD38">>,
     <<"U+D83C", "U+DD39">>, <<"U+D83C", "U+DD3A">>, <<"U+D83C", "U+DD3B">>,
     <<"U+D83C", "U+DD3C">>, <<"U+D83C", "U+DD3D">>, <<"U+D83C", "U+DD3E">>,
     <<"U+D83C", "U+DD3F">>, <<"U+D83C", "U+DD40">>, <<"U+D83C", "U+DD41">>,
     <<"U+D83C", "U+DD42">>, <<"U+D83C", "U+DD43">>, <<"U+D83C", "U+DD44">>,
     <<"U+D83C", "U+DD45">>, <<"U+D83C", "U+DD46">>, <<"U+D83C", "U+DD47">>,
     <<"U+D83C", "U+DD48">>, <<"U+D83C", "U+DD49">>, <<"U+D83C", "U+DD50">>,
     <<"U+D83C", "U+DD51">>, <<"U+D83C", "U+DD52">>, <<"U+D83C", "U+DD53">>,
     <<"U+D83C", "U+DD54">>, <<"U+D83C", "U+DD55">>, <<"U+D83C", "U+DD56">>,
     <<"U+D83C", "U+DD57">>, <<"U+D83C", "U+DD58">>, <<"U+D83C", "U+DD59">>,
     <<"U+D83C", "U+DD5A">>, <<"U+D83C", "U+DD5B">>, <<"U+D83C", "U+DD5C">>,
     <<"U+D83C", "U+DD5D">>, <<"U+D83C", "U+DD5E">>, <<"U+D83C", "U+DD5F">>,
     <<"U+D83C", "U+DD60">>, <<"U+D83C", "U+DD61">>, <<"U+D83C", "U+DD62">>,
     <<"U+D83C", "U+DD63">>, <<"U+D83C", "U+DD64">>, <<"U+D83C", "U+DD65">>,
     <<"U+D83C", "U+DD66">>, <<"U+D83C", "U+DD67">>, <<"U+D83C", "U+DD68">>,
     <<"U+D83C", "U+DD69">>, <<"U+D83C", "U+DD70">>, <<"U+D83C", "U+DD71">>,
     <<"U+D83C", "U+DD72">>, <<"U+D83C", "U+DD73">>, <<"U+D83C", "U+DD74">>,
     <<"U+D83C", "U+DD75">>, <<"U+D83C", "U+DD76">>, <<"U+D83C", "U+DD77">>,
     <<"U+D83C", "U+DD78">>, <<"U+D83C", "U+DD79">>, <<"U+D83C", "U+DD7A">>,
     <<"U+D83C", "U+DD7B">>, <<"U+D83C", "U+DD7C">>, <<"U+D83C", "U+DD7D">>,
     <<"U+D83C", "U+DD7E">>, <<"U+D83C", "U+DD7F">>, <<"U+D83C", "U+DD80">>,
     <<"U+D83C", "U+DD81">>, <<"U+D83C", "U+DD82">>, <<"U+D83C", "U+DD83">>,
     <<"U+D83C", "U+DD84">>, <<"U+D83C", "U+DD85">>, <<"U+D83C", "U+DD86">>,
     <<"U+D83C", "U+DD87">>, <<"U+D83C", "U+DD88">>, <<"U+D83C", "U+DD89">>}

-----------------------------------------------------------------------------
(* JavaScript values *)

Null == [t |-> "null", v |-> 0]
\* null where a string may stand
NullStr == [t |-> "null", v |-> <<>>]
NaN == [t |-> "NaN", v |-> 0]
\* Infinity (sign 1) and -Infinity (sign -1)
Infinity(sign) == [t |-> "Infinity", v |-> sign]
Str(s) == [t |-> "string", v |-> s]

\* values of different kinds are told apart by their tag
IsNull(x) == x.t = "null"

Min(S) == CHOOSE m \in S : \A o \in S : m <= o
Max(S) == CHOOSE m \in S : \A o \in S : m >= o

Range(s) == {s[i] : i \in DOMAIN s}

\* TLC evaluates an operator's argument anew at each use; the(..) of a
\* singleton {F(v) : v \in {e}} evaluates e once and hands F its value
the(S) == CHOOSE x \in S : TRUE

\* a function with domain 1..n as a tuple, its elements evaluated
Array(f) == f \o <<>>

\* the concatenation of the sequences of ss from the i-th to the j-th
RECURSIVE concatRange(_, _, _)
concatRange(ss, i, j) ==
    IF i > j THEN <<>>
    ELSE IF i = j THEN ss[i]
    ELSE concatRange(ss, i, (i + j) \div 2) \o concatRange(ss, (i + j) \div 2 + 1, j)

\* the concatenation of the sequences of ss
Concat(ss) == the({concatRange(v, 1, Len(v)) : v \in {Array(ss)}})

\* a loop: the state m after step has been applied to it until m.done, n
\* times at most
RECURSIVE repeat(_, _, _)
repeat(step(_), m, n) ==
    IF m.done \/ n <= 0 THEN m
    ELSE IF n = 1 THEN step(m)
    ELSE the({repeat(step, mid, n - n \div 2) : mid \in {repeat(step, m, n \div 2)}})

(* Natural numbers of any size: the sequence of the digits in base 2^15, *)
(* the least significant first and the last one not 0; <<>> is 0.  The   *)
(* bits of a number are its digits in base 2, in the same order.         *)

Base == 32768

RECURSIVE bitsOf(_)
bitsOf(n) == IF n = 0 THEN <<>> ELSE <<n % 2>> \o bitsOf(n \div 2)

\* x without the zeros above its highest digit that is not 0
strip(x) ==
    LET set == {i \in DOMAIN x : x[i] # 0}
    IN  IF set = {} THEN <<>> ELSE SubSeq(x, 1, Max(set))

\* the number whose bits are b
fromBits(bArg) ==
    LET RECURSIVE weigh(_, _, _)
        weigh(b, from, i) ==
            IF i > 15 \/ from + i > Len(b) THEN 0
            ELSE b[from + i] + 2 * weigh(b, from, i + 1)
        digits(b) == strip([j \in 1..((Len(b) + 14) \div 15) |-> weigh(b, 15 * (j - 1), 1)])
    IN  the({digits(b) : b \in {bArg}})

\* the bits of x
toBits(xArg) ==
    LET bits(x) ==
            strip([i \in 1..(15 * Len(x)) |->
                     (x[(i - 1) \div 15 + 1] \div 2^((i - 1) % 15)) % 2])
    IN  the({bits(x) : x \in {xArg}})

\* the number of bits of x
bitLength(x) == IF x = <<>> THEN 0 ELSE 15 * (Len(x) - 1) + Len(bitsOf(x[Len(x)]))

\* x * k + c, for k and c below the base
multiplyAdd(xArg, k, c) ==
    LET result(x) ==
            LET step(m) ==
                    the({[i |-> m.i + 1, carry |-> v \div Base,
                          out |-> Append(m.out, v % Base), done |-> m.i >= Len(x)] :
                            v \in {x[m.i] * k + m.carry}})
                end(m) == strip(Append(m.out, m.carry))
            IN  the({end(m) : m \in {repeat(step, [i |-> 1, carry |-> c, out |-> <<>>,
                                                   done |-> x = <<>>], Len(x))}})
    IN  the({result(x) : x \in {xArg}})

\* x + y
add(xArg, yArg) ==
    LET result(x, y) ==
            LET digit(a, i) == IF i \in DOMAIN a THEN a[i] ELSE 0
                length == Max({Len(x), Len(y)})
                step(m) ==
                    the({[i |-> m.i + 1, carry |-> v \div Base,
                          out |-> Append(m.out, v % Base), done |-> m.i >= length] :
                            v \in {digit(x, m.i) + digit(y, m.i) + m.carry}})
                end(m) == strip(Append(m.out, m.carry))
            IN  the({end(m) : m \in {repeat(step, [i |-> 1, carry |-> 0, out |-> <<>>,
                                                   done |-> length = 0], length)}})
    IN  the({the({result(x, y) : y \in {yArg}}) : x \in {xArg}})

\* x < y
less(x, y) ==
    \/ Len(x) < Len(y)
    \/ /\ Len(x) = Len(y)
       /\ \E i \in DOMAIN x :
             /\ x[i] < y[i]
             /\ \A j \in (i + 1)..Len(x) : x[j] = y[j]

\* x * 2^(15 n)
shiftDigits(x, n) == IF x = <<>> THEN <<>> ELSE [i \in 1..n |-> 0] \o x

\* x * 2^k
shiftLeft(x, k) == shiftDigits(multiplyAdd(x, 2^(k % 15), 0), k \div 15)

\* x * y
multiply(xArg, yArg) ==
    LET result(x, y) ==
            LET step(m) ==
                    the({[i |-> m.i + 1, sum |-> sum, done |-> m.i >= Len(y)] :
                            sum \in {add(m.sum, shiftDigits(multiplyAdd(x, y[m.i], 0),
                                                            m.i - 1))}})
            IN  repeat(step, [i |-> 1, sum |-> <<>>, done |-> y = <<>>], Len(y)).sum
    IN  the({the({result(x, y) : y \in {yArg}}) : x \in {xArg}})

\* 5^k
powerOfFive(k) ==
    LET step(m) ==
            the({[i |-> m.i - n, power |-> multiplyAdd(m.power, 5^n, 0), done |-> m.i - n = 0] :
                    n \in {Min({m.i, 6})}})
    IN  repeat(step, [i |-> k, power |-> <<1>>, done |-> k = 0], k).power

\* the bits of floor(x / y), for y > 0 and a quotient below 2^57, and whether
\* the division is exact
divide(xArg, yArg) ==
    LET result(x, y) ==
            LET next(m, sum) ==
                    IF less(x, sum)
                    THEN [j |-> m.j - 1, product |-> m.product,
                          bits |-> <<0>> \o m.bits, done |-> m.j = 0]
                    ELSE [j |-> m.j - 1, product |-> sum,
                          bits |-> <<1>> \o m.bits, done |-> m.j = 0]
                \* the bit of 2^j: 1 when the quotient so far with it added,
                \* times y, does not exceed x
                step(m) == the({next(m, sum) : sum \in {add(m.product, shiftLeft(y, m.j))}})
                end(m) == [quotient |-> strip(m.bits), exact |-> m.product = x]
            IN  the({end(m) : m \in {repeat(step, [j |-> 56, product |-> <<>>, bits |-> <<>>,
                                                   done |-> FALSE], 57)}})
    IN  the({the({result(x, y) : y \in {yArg}}) : x \in {xArg}})

(* Numbers.  A finite number is sign * m * 2^e, m being odd or 0 (then e  *)
(* is 0): every double is one such, and Double(..) gives the double for  *)
(* each.  +0 and -0 are the numbers of m = 0.                             *)

\* the double sign * m * 2^e, for m * 2^e of at most 53 significant bits
\* and within the range of doubles
Double(sign, m, e) ==
    LET ones == {i \in DOMAIN m : m[i] = 1}
    IN  IF ones = {} THEN [t |-> "number", sign |-> sign, m |-> <<>>, e |-> 0]
        ELSE [t |-> "number", sign |-> sign,
              m |-> SubSeq(m, Min(ones), Len(m)), e |-> e + Min(ones) - 1]

\* the double nearest to sign * (m + f) * 2^e with 0 <= f < 1, f > 0 iff
\* inexact (m then has more than 53 bits): round to nearest, ties to even;
\* the last bit kept is that of 2^-1074 or above, and 2^1024 is Infinity
roundToDouble(sign, m, e, inexact) ==
    LET last == Max({Len(m) + e - 53, -1074})
        drop == last - e
        kept == IF drop <= 0 THEN m
                ELSE IF drop >= Len(m) THEN <<>>
                ELSE SubSeq(m, drop + 1, Len(m))
        half == drop \in DOMAIN m /\ m[drop] = 1
        rest == inexact \/ \E i \in 1..Min({drop - 1, Len(m)}) : m[i] = 1
        up == half /\ (rest \/ (kept # <<>> /\ kept[1] = 1))
        rounded(digits) ==
            IF Len(digits) + Max({e, last}) > 1024 THEN Infinity(sign)
            ELSE Double(sign, digits, Max({e, last}))
        \* kept + 1
        above == LET zeros == {i \in DOMAIN kept : kept[i] = 0}
                     lowest == IF zeros = {} THEN Len(kept) + 1 ELSE Min(zeros)
                 IN  [i \in 1..Max({Len(kept), lowest}) |->
                        IF i < lowest THEN 0 ELSE IF i = lowest THEN 1 ELSE kept[i]]
    IN  the({rounded(digits) : digits \in {IF up THEN above ELSE kept}})

\* the integer n
Num(n) == Double(IF n < 0 THEN -1 ELSE 1, bitsOf(IF n < 0 THEN 0 - n ELSE n), 0)

\* ToBoolean of a number: 0, -0 and NaN are falsy
Truthy(x) == (x.t = "number" /\ x.m # <<>>) \/ x.t = "Infinity"

\* x * y on numbers: the double nearest to the product
times(x, y) ==
    LET signOf(z) == IF z.t = "Infinity" THEN z.v ELSE z.sign
    IN  IF x.t = "NaN" \/ y.t = "NaN" THEN NaN
        ELSE IF x.t = "Infinity" \/ y.t = "Infinity"
        THEN IF ~Truthy(x) \/ ~Truthy(y) THEN NaN
             ELSE Infinity(signOf(x) * signOf(y))
        ELSE roundToDouble(x.sign * y.sign,
                           toBits(multiply(fromBits(x.m), fromBits(y.m))), x.e + y.e, FALSE)

(* Character classes *)

Digits == <<"0", "1", "2", "3", "4", "5", "6", "7", "8", "9">>
IsDigit(c) == c \in Range(Digits)
DigitValue(c) == (CHOOSE i \in DOMAIN Digits : Digits[i] = c) - 1

\* WhiteSpace and LineTerminator of ECMAScript, which trim, \s and parseFloat
\* take as white space.  A character a TLA+ string cannot hold is the token
\* named by its code point
WhiteSpace ==
    {" ", "\t", "\n", "\r", "\f", "U+000B", "U+00A0", "U+1680", "U+2000",
     "U+2001", "U+2002", "U+2003", "U+2004", "U+2005", "U+2006", "U+2007",
     "U+2008", "U+2009", "U+200A", "U+2028", "U+2029", "U+202F", "U+205F",
     "U+3000", "U+FEFF"}
IsSpace(c) == c \in WhiteSpace

\* the function of a case table: what each character it lists becomes
caseMap(table) == [c \in {p[1] : p \in table} |-> (CHOOSE p \in table : p[1] = c)[2]]
upperOf == caseMap(UpperCase)
lowerOf == caseMap(LowerCase)

\* s with each character replaced as the function of says; a surrogate
\* pair the function lists is one character, any other code unit one by
\* itself
convertCase(sArg, of) ==
    LET converted(s) ==
            LET pairAt(i) == i >= 1 /\ i < Len(s) /\ <<s[i], s[i + 1]>> \in DOMAIN of
            IN  Concat([i \in DOMAIN s |->
                          IF pairAt(i) THEN of[<<s[i], s[i + 1]>>]
                          ELSE IF pairAt(i - 1) THEN <<>>
                          ELSE IF <<s[i]>> \in DOMAIN of THEN of[<<s[i]>>]
                          ELSE <<s[i]>>])
    IN  the({converted(s) : s \in {sArg}})

\* String.prototype.toUpperCase
toUpperCase(s) == convertCase(s, upperOf)

\* whether a cased letter comes next in s from position j in direction dir
\* (1 or -1), case-ignorable characters being passed over
RECURSIVE casedLetterNext(_, _, _)
casedLetterNext(s, j, dir) ==
    LET k == IF dir = 1 THEN j ELSE j - 1
        pair == IF k >= 1 /\ k < Len(s) THEN <<s[k], s[k + 1]>> ELSE <<>>
    IN  IF j < 1 \/ j > Len(s) THEN FALSE
        ELSE IF pair \in CaseIgnorable THEN casedLetterNext(s, j + 2 * dir, dir)
        ELSE IF pair \in CasedLetter THEN TRUE
        ELSE IF <<s[j]>> \in CaseIgnorable THEN casedLetterNext(s, j + dir, dir)
        ELSE <<s[j]>> \in CasedLetter

\* a capital sigma is the final one of a word when a cased letter precedes
\* it and none follows
isFinalSigma(s, i) == casedLetterNext(s, i - 1, -1) /\ ~casedLetterNext(s, i + 1, 1)

\* String.prototype.toLowerCase: the final sigma of a word has a lower case
\* of its own
toLowerCase(s) ==
    LET finals == {i \in DOMAIN s : s[i] = "U+03A3" /\ isFinalSigma(s, i)}
        marked == [i \in DOMAIN s |-> IF i \in finals THEN "U+03C2" ELSE s[i]]
    IN  IF \A i \in DOMAIN s : s[i] # "U+03A3" THEN convertCase(s, lowerOf)
        ELSE the({convertCase(text, lowerOf) : text \in {Array(marked)}})

\* the characters of a text: those a markup tag is written with stand for
\* the tag
characters(s) ==
    Concat([i \in DOMAIN s |->
              IF Len(s[i]) > 1 /\ Head(s[i]) = "<"
              THEN [k \in 1..Len(s[i]) |-> SubSeq(s[i], k, k)]
              ELSE <<s[i]>>])

\* String.prototype.trim
trim(s) ==
    LET I == {i \in DOMAIN s : ~IsSpace(s[i])}
    IN  IF I = {} THEN <<>> ELSE SubSeq(s, Min(I), Max(I))

\* index of the first token tok at or after from, 0 when there is none
IndexOf(s, tok, from) ==
    LET I == {i \in from..Len(s) : s[i] = tok}
    IN  IF I = {} THEN 0 ELSE Min(I)

\* String.prototype.includes for a pattern of tokens
includes(s, pat) ==
    \E i \in 1..(Len(s) - Len(pat) + 1) : SubSeq(s, i, i + Len(pat) - 1) = pat

Open(tag) == "<" \o tag \o ">"
Close(tag) == "</" \o tag \o ">"

\* text.match(/<tag>([\s\S]*?)<\/tag>/): the text between the first <tag> and
\* the first </tag> after it; [found |-> FALSE] when the pattern does not match
matchTag(s, tag) ==
    LET i == IndexOf(s, Open(tag), 1)
        j == IF i = 0 THEN 0 ELSE IndexOf(s, Close(tag), i + 1)
    IN  IF j = 0 THEN [found |-> FALSE, inner |-> <<>>, end |-> 0]
        ELSE [found |-> TRUE, inner |-> SubSeq(s, i + 1, j - 1), end |-> j]

\* the helper get of parseForm4Transactions
get(block, tag) ==
    LET m == matchTag(block, tag)
    IN  IF m.found THEN trim(m.inner) ELSE <<>>

\* the number of digits of s from position i on, up to the first other token
digitRun(s, i) ==
    LET stop == {j \in i..Len(s) : ~IsDigit(s[j])}
    IN  (IF stop = {} THEN Len(s) + 1 ELSE Min(stop)) - i

\* the number written by the n digits of s from position i on
RECURSIVE digitsValue(_, _, _)
digitsValue(s, i, n) ==
    IF n = 0 THEN 0 ELSE 10 * digitsValue(s, i, n - 1) + DigitValue(s[i + n - 1])

\* the number the digits write
naturalOf(digits) ==
    repeat(LAMBDA m : [i |-> m.i + 1, done |-> m.i >= Len(digits),
                       sum |-> multiplyAdd(m.sum, 10, DigitValue(digits[m.i]))],
           [i |-> 1, sum |-> <<>>, done |-> digits = <<>>], Len(digits)).sum

\* the double nearest to sign * n / d * 2^e for natural numbers n and d, both
\* above 0: the quotient is taken to 55 or 56 bits, and whatever is left of
\* the division tells which way a tie goes
ratioToDouble(sign, n, d, e) ==
    the({the({roundToDouble(sign, r.quotient, e - shift, ~r.exact) :
                 r \in {the({divide(IF shift >= 0 THEN scaled ELSE n,
                                    IF shift >= 0 THEN d ELSE scaled) :
                                scaled \in {shiftLeft(IF shift >= 0 THEN n ELSE d,
                                                      IF shift >= 0 THEN shift
                                                      ELSE 0 - shift)}})}}) :
            shift \in {55 + bitLength(d) - bitLength(n)}})

\* the double nearest to sign * D * 10^exponent, D being the number the
\* digits write and not 0: 10^exponent is 5^exponent * 2^exponent
scaledToDouble(sign, digits, exponent) ==
    the({ratioToDouble(sign,
                       IF exponent >= 0 THEN multiply(d, power) ELSE d,
                       IF exponent >= 0 THEN <<1>> ELSE power,
                       exponent) :
            d \in {naturalOf(digits)},
            power \in {powerOfFive(IF exponent >= 0 THEN exponent ELSE 0 - exponent)}})

\* the double nearest to sign * D * 10^exponent.  D * 10^exponent is at
\* least 10^(magnitude - 1) and less than 10^magnitude: above 10^309 it is
\* Infinity and below 10^-324 it is 0
decimalToDouble(sign, digits, exponent) ==
    LET nonzero == {i \in DOMAIN digits : digits[i] # "0"}
        magnitude == Len(digits) - Min(nonzero) + 1 + exponent
    IN  IF nonzero = {} THEN Double(sign, <<>>, 0)
        ELSE IF magnitude > 309 THEN Infinity(sign)
        ELSE IF magnitude < -323 THEN Double(sign, <<>>, 0)
        ELSE scaledToDouble(sign, digits, exponent)

\* the value of the exponent part of t at position q, 0 when there is none;
\* one of ten digits or more counts as 999999999, which is as good
exponentPart(t, q) ==
    LET e == q <= Len(t) /\ t[q] \in {"e", "E"}
        esigned == e /\ q + 1 <= Len(t) /\ t[q + 1] \in {"-", "+"}
        ep == q + 1 + (IF esigned THEN 1 ELSE 0)
        ne == IF e THEN digitRun(t, ep) ELSE 0
        nonzero == {j \in ep..(ep + ne - 1) : t[j] # "0"}
        zeros == IF nonzero = {} THEN ne ELSE Min(nonzero) - ep
    IN  IF ne = 0 THEN 0
        ELSE (IF esigned /\ t[q + 1] = "-" THEN -1 ELSE 1)
             * (IF ne - zeros > 9 THEN 999999999
                ELSE digitsValue(t, ep + zeros, ne - zeros))

\* the longest prefix of t that is a StrDecimalLiteral: an optional sign,
\* then Infinity or ni digits with an optional fraction of nf digits and an
\* optional exponent; NaN when there is none
decimalPrefix(t) ==
    LET word == <<"I", "n", "f", "i", "n", "i", "t", "y">>
        signed == t # <<>> /\ t[1] \in {"-", "+"}
        sign == IF t # <<>> /\ t[1] = "-" THEN -1 ELSE 1
        p == IF signed THEN 2 ELSE 1
        ni == digitRun(t, p)
        dot == p + ni <= Len(t) /\ t[p + ni] = "."
        nf == IF dot THEN digitRun(t, p + ni + 1) ELSE 0
    IN  IF /\ p + Len(word) - 1 <= Len(t)
           /\ SubSeq(t, p, p + Len(word) - 1) = word
        THEN Infinity(sign)
        ELSE IF ni = 0 /\ nf = 0 THEN NaN
        ELSE the({decimalToDouble(sign, digits, exponent) :
                     digits \in {SubSeq(t, p, p + ni - 1)
                                 \o (IF nf = 0 THEN <<>>
                                     ELSE SubSeq(t, p + ni + 1, p + ni + nf))},
                     exponent \in {exponentPart(t, p + ni + (IF dot THEN 1 + nf ELSE 0)) - nf}})

\* parseFloat: leading white space is skipped
parseFloat(s) ==
    LET I == {i \in DOMAIN s : ~IsSpace(s[i])}
    IN  the({decimalPrefix(t) : t \in {IF I = {} THEN <<>> ELSE SubSeq(s, Min(I), Len(s))}})

\* a || b on strings: the empty string is falsy
OrElse(a, b) == IF a # <<>> THEN a ELSE b

\* String.prototype.split(' ')
split(sArg, sep) ==
    LET pieces(s, cuts) == [k \in 1..(Len(cuts) - 1) |-> SubSeq(s, cuts[k] + 1, cuts[k + 1] - 1)]
        cut(s) ==
            pieces(s, <<0>> \o SelectSeq([i \in DOMAIN s |-> i], LAMBDA i : s[i] = sep)
                      \o <<Len(s) + 1>>)
    IN  the({cut(s) : s \in {sArg}})

\* Array.prototype.join(' ')
join(words, sep) ==
    Concat([k \in DOMAIN words |-> IF k = 1 THEN words[k] ELSE <<sep>> \o words[k]])

\* name.replace(/\s+/g, ' '): every run of white space becomes one blank
collapseSpaces(s) ==
    LET keep == SelectSeq([i \in DOMAIN s |-> <<i, s[i]>>],
                          LAMBDA p : ~IsSpace(p[2]) \/ p[1] = 1 \/ ~IsSpace(s[p[1] - 1]))
    IN  [k \in DOMAIN keep |-> IF IsSpace(keep[k][2]) THEN " " ELSE keep[k][2]]

\* w.charAt(0).toUpperCase() + w.slice(1).toLowerCase()
capitalize(w) ==
    IF w = <<>> THEN <<>> ELSE toUpperCase(<<w[1]>>) \o toLowerCase(Tail(w))

cleanName(name) ==
    IF name = <<>> THEN <<>>
    ELSE the({join(capitalized, " ") :
                 capitalized \in {Array([k \in DOMAIN words |-> capitalize(words[k])]) :
                                     words \in {split(trim(collapseSpaces(name)), " ")}}})

-----------------------------------------------------------------------------
(* parseForm4Transactions *)

Director == <<"D", "i", "r", "e", "c", "t", "o", "r">>
TenPercentOwner == <<"1", "0", "%", " ", "O", "w", "n", "e", "r">>

\* the reporting owner's title, from the relationship block
titleOf(titleBlock) ==
    LET officerTitle == get(titleBlock, "officerTitle")
        flag(tag, text) == <<Open(tag)>> \o text \o <<Close(tag)>>
    IN  IF titleBlock = <<>> THEN <<>>
        ELSE IF officerTitle # <<>> THEN officerTitle
        ELSE IF \/ includes(titleBlock, flag("isDirector", <<"1">>))
                \/ includes(titleBlock, flag("isDirector", <<"t", "r", "u", "e">>))
             THEN Director
        ELSE IF \/ includes(titleBlock, flag("isTenPercentOwner", <<"1">>))
                \/ includes(titleBlock, flag("isTenPercentOwner", <<"t", "r", "u", "e">>))
             THEN TenPercentOwner
        ELSE <<>>

\* the successive matches of ndRegex.exec(xml), from token from on
ndBlocks(text, from) ==
    LET next(m, i, j) ==
            IF j = 0 THEN [m EXCEPT !.done = TRUE]
            ELSE [from |-> j + 1, blocks |-> Append(m.blocks, SubSeq(text, i + 1, j - 1)),
                  done |-> FALSE]
        closing(m, i) ==
            next(m, i, IF i = 0 THEN 0
                       ELSE IndexOf(text, Close("nonDerivativeTransaction"), i + 1))
        step(m) ==
            the({closing(m, i) : i \in {IndexOf(text, Open("nonDerivativeTransaction"), m.from)}})
    IN  repeat(step, [from |-> from, blocks |-> <<>>, done |-> FALSE], Len(text) + 1).blocks

\* the record pushed for one block tx whose code is P or S
tradeOf(tx, code, ticker, insider, title) ==
    the({[ticker |-> toUpperCase(characters(ticker)),
          insider |-> cleanName(characters(insider)),
          title |-> characters(title),
          type |-> IF code = <<"P">> THEN "BUY" ELSE "SELL",
          shares |-> shares,
          price |-> price,
          value |-> IF Truthy(shares) /\ Truthy(price) THEN times(shares, price) ELSE Null,
          date |-> IF date # <<>> THEN Str(characters(date)) ELSE NullStr] :
            shares \in {parseFloat(OrElse(get(tx, "transactionShares"),
                                          OrElse(get(tx, "sharesAmount"), <<"0">>)))},
            price \in {parseFloat(OrElse(get(tx, "transactionPricePerShare"),
                                         OrElse(get(tx, "pricePerShare"), <<"0">>)))},
            date \in {IF get(tx, "transactionDate") # <<>>
                      THEN OrElse(get(get(tx, "transactionDate"), "value"),
                                  get(tx, "transactionDate"))
                      ELSE <<>>}})

\* variant of isTradeCode that lets grants (code A) through
isTradeCodeOrGrant(code) == code = <<"P">> \/ code = <<"S">> \/ code = <<"A">>

\* the test that skips a block: code !== 'P' && code !== 'S'
isTradeCode(code) == code = <<"P">> \/ code = <<"S">>

parseForm4Transactions(text) ==
    LET ticker == get(text, "issuerTradingSymbol")
        reporterBlock == matchTag(text, "reportingOwner")
        insider == IF reporterBlock.found
                   THEN get(reporterBlock.inner, "rptOwnerName") ELSE <<>>
        titleBlock == IF reporterBlock.found
                      THEN matchTag(reporterBlock.inner, "reportingOwnerRelationship").inner
                      ELSE <<>>
    IN  the({Array([k \in DOMAIN kept |->
                      tradeOf(kept[k], get(kept[k], "transactionCode"), symbol, name, role)]) :
                symbol \in {ticker}, name \in {insider}, role \in {titleOf(titleBlock)},
                kept \in {SelectSeq(ndBlocks(text, 1),
                                    LAMBDA tx : isTradeCode(get(tx, "transactionCode")))}})

-----------------------------------------------------------------------------
(* new Date(date): the time value of a record's date.  A string goes       *)
(* through Date.parse, which reads an ISO 8601 date-time and hands what is *)
(* left to the engine's legacy date parser.                                *)

\* days from 1970-01-01 to the civil date y-m-d (proleptic Gregorian)
daysFromCivil(y, m, d) ==
    LET yy == IF m <= 2 THEN y - 1 ELSE y
        era == yy \div 400
        yoe == yy - era * 400
        mp == (m + 9) % 12
        doy == (153 * mp + 2) \div 5 + d - 1
        doe == yoe * 365 + yoe \div 4 - yoe \div 100 + doy
    IN  era * 146097 + doe - 719468

\* a time value of day whole days and ms further milliseconds from the
\* epoch, 0 <= ms < MsPerDay: the number day * 86400000 + ms
Time(day, ms) == [t |-> "number", day |-> day + ms \div MsPerDay, ms |-> ms % MsPerDay]

\* the tokens of the date scanner
\* a token of kind k (number, symbol, keyword, space, unknown, end): c is
\* the symbol or the type of the keyword, v the value of the number or of the
\* keyword, n the length of the numeral or of the word
Token(k, c, v, n) == [k |-> k, c |-> c, v |-> v, n |-> n]

\* the words the scanner knows, by their first three letters: a month name
\* may be longer, any other word is matched whole
Keywords ==
    {<<<<"j", "a", "n">>, "MONTH_NAME", 1>>, <<<<"f", "e", "b">>, "MONTH_NAME", 2>>,
     <<<<"m", "a", "r">>, "MONTH_NAME", 3>>, <<<<"a", "p", "r">>, "MONTH_NAME", 4>>,
     <<<<"m", "a", "y">>, "MONTH_NAME", 5>>, <<<<"j", "u", "n">>, "MONTH_NAME", 6>>,
     <<<<"j", "u", "l">>, "MONTH_NAME", 7>>, <<<<"a", "u", "g">>, "MONTH_NAME", 8>>,
     <<<<"s", "e", "p">>, "MONTH_NAME", 9>>, <<<<"o", "c", "t">>, "MONTH_NAME", 10>>,
     <<<<"n", "o", "v">>, "MONTH_NAME", 11>>, <<<<"d", "e", "c">>, "MONTH_NAME", 12>>,
     <<<<"a", "m">>, "AM_PM", 0>>, <<<<"p", "m">>, "AM_PM", 12>>,
     <<<<"u", "t">>, "TIME_ZONE_NAME", 0>>, <<<<"u", "t", "c">>, "TIME_ZONE_NAME", 0>>,
     <<<<"z">>, "TIME_ZONE_NAME", 0>>, <<<<"g", "m", "t">>, "TIME_ZONE_NAME", 0>>,
     <<<<"c", "d", "t">>, "TIME_ZONE_NAME", -5>>, <<<<"c", "s", "t">>, "TIME_ZONE_NAME", -6>>,
     <<<<"e", "d", "t">>, "TIME_ZONE_NAME", -4>>, <<<<"e", "s", "t">>, "TIME_ZONE_NAME", -5>>,
     <<<<"m", "d", "t">>, "TIME_ZONE_NAME", -6>>, <<<<"m", "s", "t">>, "TIME_ZONE_NAME", -7>>,
     <<<<"p", "d", "t">>, "TIME_ZONE_NAME", -7>>, <<<<"p", "s", "t">>, "TIME_ZONE_NAME", -8>>,
     <<<<"t">>, "TIME_SEPARATOR", 0>>}

AsciiUpper ==
    <<"A", "B", "C", "D", "E", "F", "G", "H", "I", "J", "K", "L", "M",
      "N", "O", "P", "Q", "R", "S", "T", "U", "V", "W", "X", "Y", "Z">>
AsciiLower ==
    <<"a", "b", "c", "d", "e", "f", "g", "h", "i", "j", "k", "l", "m",
      "n", "o", "p", "q", "r", "s", "t", "u", "v", "w", "x", "y", "z">>

\* the scanner's lowering of a character: c | 0x20, which makes a letter of
\* the letters A-Z and a-z only
AsciiAlphaToLower(c) ==
    IF c \in Range(AsciiUpper)
    THEN AsciiLower[CHOOSE i \in DOMAIN AsciiUpper : AsciiUpper[i] = c] ELSE c

\* the token of a word; a word that is no keyword is of type INVALID
keywordOf(word) ==
    LET prefix == [i \in 1..Min({Len(word), 3}) |-> AsciiAlphaToLower(word[i])]
        hits == {e \in Keywords :
                    /\ Len(e[1]) = Len(prefix)
                    /\ e[1] = prefix
                    /\ (Len(word) <= 3 \/ e[2] = "MONTH_NAME")}
    IN  IF hits = {} THEN Token("keyword", "INVALID", 0, Len(word))
        ELSE the({Token("keyword", e[2], e[3], Len(word)) : e \in hits})

\* the characters below "A": the controls, the blank, the digits and the
\* signs that come before the letters
BelowA ==
    {"U+0000", "U+0001", "U+0002", "U+0003", "U+0004", "U+0005", "U+0006",
     "U+0007", "U+0008", "\t", "\n", "U+000B", "\f", "\r", "U+000E", "U+000F",
     "U+0010", "U+0011", "U+0012", "U+0013", "U+0014", "U+0015", "U+0016",
     "U+0017", "U+0018", "U+0019", "U+001A", "U+001B", "U+001C", "U+001D",
     "U+001E", "U+001F", " ", "!", "\"", "#", "$", "%", "&", "'", "(", ")",
     "*", "+", ",", "-", ".", "/", "0", "1", "2", "3", "4", "5", "6", "7",
     "8", "9", ":", ";", "<", "=", ">", "?", "@"}
IsAsciiAlphaOrAbove(c) == c \notin BelowA

LineTerminators == {"\n", "\r", "U+2028", "U+2029"}
\* white space that is no line terminator
IsWhiteSpaceChar(c) == c \in WhiteSpace \ LineTerminators

\* the character that ends the text for the scanner
EndOfInput == "U+0000"

\* the length of the word of s at position i: the characters from "A" up
\* that are no white space (a line separator is none for the scanner)
wordRun(s, i) ==
    LET stop == {j \in i..Len(s) : ~IsAsciiAlphaOrAbove(s[j]) \/ IsWhiteSpaceChar(s[j])}
    IN  (IF stop = {} THEN Len(s) + 1 ELSE Min(stop)) - i

\* the value of a numeral of n digits at position i: leading zeros are
\* skipped and the nine digits after them are read
numeralValue(s, i, n) ==
    LET nonzero == {j \in i..(i + n - 1) : s[j] # "0"}
        zeros == IF nonzero = {} THEN n ELSE Min(nonzero) - i
    IN  digitsValue(s, i + zeros, Min({n - zeros, 9}))

\* the position after the parenthesised text that opens at i
skipParentheses(s, i, balance) ==
    LET state(j, b) == [i |-> j + 1, balance |-> b,
                        done |-> ~(b > 0 /\ j + 1 <= Len(s) /\ s[j + 1] # EndOfInput)]
        count(j, b) ==
            state(j, b + (IF s[j] = "(" THEN 1 ELSE IF s[j] = ")" THEN -1 ELSE 0))
        step(m) == count(m.i, m.balance)
    IN  the({repeat(step, begin, Len(s)).i : begin \in {count(i, balance)}})

\* the token at position i of s and the position after it.  The text is one
\* character per token
scan(s, i) ==
    IF IsDigit(s[i])
    THEN [token |-> Token("number", "", numeralValue(s, i, digitRun(s, i)), digitRun(s, i)),
          next |-> i + digitRun(s, i)]
    ELSE IF s[i] \in {":", "-", "+", ".", ")"}
    THEN [token |-> Token("symbol", s[i], 0, 1), next |-> i + 1]
    ELSE IF IsAsciiAlphaOrAbove(s[i]) /\ ~IsWhiteSpaceChar(s[i])
    THEN [token |-> keywordOf(SubSeq(s, i, i + wordRun(s, i) - 1)),
          next |-> i + wordRun(s, i)]
    ELSE IF IsSpace(s[i])
    THEN [token |-> Token("space", "", 0, 1), next |-> i + 1]
    ELSE IF s[i] = "("
    THEN [token |-> Token("unknown", "", 0, 1), next |-> skipParentheses(s, i, 0)]
    ELSE [token |-> Token("unknown", "", 0, 1), next |-> i + 1]

\* the tokens of s from position i on, up to the end of the input
dateTokens(s, i) ==
    LET ended(j) == j > Len(s) \/ s[j] = EndOfInput
        step(m) ==
            the({[i |-> r.next, tokens |-> Append(m.tokens, r.token), done |-> ended(r.next)] :
                    r \in {scan(s, m.i)}})
    IN  repeat(step, [i |-> i, tokens |-> <<>>, done |-> ended(i)], Len(s)).tokens

Peek(tk, i) == IF i \in DOMAIN tk THEN tk[i] ELSE Token("end", "", 0, 0)
IsFixedNumber(token, n) == token.k = "number" /\ token.n = n
IsSymbol(token, c) == token.k = "symbol" /\ token.c = c
IsAsciiSign(token) == token.k = "symbol" /\ token.c \in {"+", "-"}
asciiSign(token) == IF token.c = "+" THEN 1 ELSE -1
IsKeywordType(token, type) == token.k = "keyword" /\ token.c = type
IsKeywordZ(token) == IsKeywordType(token, "TIME_ZONE_NAME") /\ token.n = 1

IsMonth(x) == x \in 1..12
IsDay(x) == x \in 1..31
IsHour(x) == x \in 0..23
IsMinute(x) == x \in 0..59
IsSecond(x) == x \in 0..59
IsMillisecond(x) == x \in 0..999

RECURSIVE pow10(_)
pow10(k) == IF k = 0 THEN 1 ELSE 10 * pow10(k - 1)

\* the milliseconds written by the digits after a decimal point
ReadMilliseconds(token) ==
    IF token.n = 1 THEN token.v * 100
    ELSE IF token.n = 2 THEN token.v * 10
    ELSE IF token.n > 3 THEN token.v \div pow10(Min({token.n, 9}) - 3)
    ELSE token.v

\* the day, time and time zone read so far.  day and time are the numbers
\* added; named is the month given by name (0: none), hourOffset that of
\* AM or PM (-1: none), sign, hour and minute the zone (0, -1, -1: none)
Composers(day) ==
    [ok |-> TRUE, day |-> day, named |-> 0, iso |-> FALSE, time |-> <<>>,
     hourOffset |-> -1, sign |-> 0, hour |-> -1, minute |-> -1,
     hasReadNumber |-> day # <<>>]
Invalid(st) == [st EXCEPT !.ok = FALSE]

\* the ISO year: four digits, or a sign and six digits.  go tells whether
\* the ISO reading goes on at token at, or the legacy one takes over there
es5Year(tk) ==
    IF IsAsciiSign(Peek(tk, 1))
    THEN IF ~IsFixedNumber(Peek(tk, 2), 6) THEN [go |-> FALSE, at |-> 1, day |-> <<>>]
         ELSE IF asciiSign(tk[1]) < 0 /\ tk[2].v = 0
         THEN [go |-> FALSE, at |-> 3, day |-> <<>>]
         ELSE [go |-> TRUE, at |-> 3, day |-> <<asciiSign(tk[1]) * tk[2].v>>]
    ELSE IF IsFixedNumber(Peek(tk, 1), 4) THEN [go |-> TRUE, at |-> 2, day |-> <<tk[1].v>>]
    ELSE [go |-> FALSE, at |-> 1, day |-> <<>>]

\* an optional -MM (part "month") or -DD (part "day") after what r has read
es5Part(tk, r, part) ==
    LET token == Peek(tk, r.at + 1)
        valid == IF part = "month" THEN IsMonth(token.v) ELSE IsDay(token.v)
    IN  IF ~IsSymbol(Peek(tk, r.at), "-") THEN r
        ELSE IF ~IsFixedNumber(token, 2) \/ ~valid
        THEN [go |-> FALSE, at |-> r.at + 1, day |-> r.day]
        ELSE [go |-> TRUE, at |-> r.at + 2, day |-> Append(r.day, token.v)]

es5Date(tk) ==
    LET year == es5Year(tk)
        month == IF year.go THEN es5Part(tk, year, "month") ELSE year
    IN  IF month.go /\ Len(month.day) = 2 THEN es5Part(tk, month, "day") ELSE month

\* the optional zone designation Z, +hh:mm, -hh:mm, +hhmm or -hhmm at q
es5Zone(tk, q) ==
    LET z == Peek(tk, q)
        n == Peek(tk, q + 1)
        mm == Peek(tk, q + 3)
    IN  IF IsKeywordZ(z)
        THEN [ok |-> TRUE, at |-> q + 1, sign |-> 1, hour |-> 0, minute |-> 0]
        ELSE IF ~IsAsciiSign(z)
        THEN [ok |-> TRUE, at |-> q, sign |-> 0, hour |-> -1, minute |-> -1]
        ELSE IF IsFixedNumber(n, 4)
        THEN [ok |-> IsHour(n.v \div 100) /\ IsMinute(n.v % 100), at |-> q + 2,
              sign |-> asciiSign(z), hour |-> n.v \div 100, minute |-> n.v % 100]
        ELSE [ok |-> /\ IsFixedNumber(n, 2) /\ IsHour(n.v)
                     /\ IsSymbol(Peek(tk, q + 2), ":")
                     /\ IsFixedNumber(mm, 2) /\ IsMinute(mm.v),
              at |-> q + 4, sign |-> asciiSign(z), hour |-> n.v, minute |-> mm.v]

\* the time part THH:mm[:ss[.sss]] and zone, from the token p after the T;
\* nothing may follow it
es5Time(tk, p, day) ==
    LET h == Peek(tk, p)
        m == Peek(tk, p + 2)
        hasSeconds == IsSymbol(Peek(tk, p + 3), ":")
        s == Peek(tk, p + 4)
        hasMillis == hasSeconds /\ IsSymbol(Peek(tk, p + 5), ".")
        f == Peek(tk, p + 6)
        q == p + 3 + (IF hasSeconds THEN 2 ELSE 0) + (IF hasMillis THEN 2 ELSE 0)
        hourIs24 == h.v = 24
        timeOk == /\ IsFixedNumber(h, 2) /\ h.v \in 0..24
                  /\ IsSymbol(Peek(tk, p + 1), ":")
                  /\ IsFixedNumber(m, 2) /\ IsMinute(m.v) /\ ~(hourIs24 /\ m.v > 0)
                  /\ (hasSeconds =>
                        IsFixedNumber(s, 2) /\ IsSecond(s.v) /\ ~(hourIs24 /\ s.v > 0))
                  /\ (hasMillis => f.k = "number" /\ ~(hourIs24 /\ f.v > 0))
        zone == es5Zone(tk, q)
        time == <<h.v, m.v>> \o (IF hasSeconds THEN <<s.v>> ELSE <<>>)
                             \o (IF hasMillis THEN <<ReadMilliseconds(f)>> ELSE <<>>)
    IN  IF timeOk /\ zone.ok /\ Peek(tk, zone.at).k = "end"
        THEN [Composers(day) EXCEPT !.iso = TRUE, !.time = time, !.sign = zone.sign,
                                    !.hour = zone.hour, !.minute = zone.minute]
        ELSE Invalid(Composers(day))

\* the legacy parser's reading of a number
timeExpecting(time, n) ==
    \/ Len(time) = 1 /\ IsMinute(n)
    \/ Len(time) = 2 /\ IsSecond(n)
    \/ Len(time) = 3 /\ IsMillisecond(n)
zoneExpecting(st, n) == st.hour # -1 /\ st.minute = -1 /\ IsMinute(n)
AddFinal(time, n) ==
    IF Len(time) >= 4 THEN time
    ELSE Append(time, n) \o [k \in 1..(3 - Len(time)) |-> 0]

legacyNumber(tk, i, st) ==
    LET n == tk[i].v
        colon == IsSymbol(Peek(tk, i + 1), ":")
        dot == IsSymbol(Peek(tk, i + 1), ".")
        p == IF dot THEN i + 2 ELSE i + 1
        after == Peek(tk, p)
        read == [st EXCEPT !.hasReadNumber = TRUE]
    IN  IF colon /\ IsSymbol(Peek(tk, i + 2), ":")
        THEN [at |-> i + 3,
              st |-> IF st.time # <<>> THEN Invalid(st) ELSE [read EXCEPT !.time = <<n, 0>>]]
        ELSE IF colon
        THEN [at |-> IF IsSymbol(Peek(tk, i + 2), ".") THEN i + 3 ELSE i + 2,
              st |-> IF Len(st.time) >= 4 THEN Invalid(st)
                     ELSE [read EXCEPT !.time = Append(st.time, n)]]
        ELSE IF dot /\ timeExpecting(st.time, n)
        THEN [at |-> i + 3,
              st |-> IF Peek(tk, i + 2).k # "number" THEN Invalid(st)
                     ELSE [read EXCEPT !.time = AddFinal(Append(st.time, n),
                                                        ReadMilliseconds(tk[i + 2]))]]
        ELSE IF zoneExpecting(st, n)
        THEN [at |-> p, st |-> [read EXCEPT !.minute = n]]
        ELSE IF timeExpecting(st.time, n)
        THEN [at |-> p,
              st |-> IF after.k \in {"end", "space"} \/ IsKeywordZ(after) \/ IsAsciiSign(after)
                     THEN [read EXCEPT !.time = AddFinal(st.time, n)]
                     ELSE Invalid(st)]
        ELSE [at |-> IF IsSymbol(after, "-") THEN p + 1 ELSE p,
              st |-> IF Len(st.day) >= 3 THEN Invalid(st)
                     ELSE [read EXCEPT !.day = Append(st.day, n)]]

\* the legacy parser's reading of a word
legacyKeyword(tk, i, st) ==
    LET type == tk[i].c
        value == tk[i].v
    IN  IF type = "AM_PM" /\ st.time # <<>>
        THEN [at |-> i + 1, st |-> [st EXCEPT !.hourOffset = value]]
        ELSE IF type = "MONTH_NAME"
        THEN [at |-> IF IsSymbol(Peek(tk, i + 1), "-") THEN i + 2 ELSE i + 1,
              st |-> [st EXCEPT !.named = value]]
        ELSE IF type = "TIME_ZONE_NAME" /\ st.hasReadNumber
        THEN [at |-> i + 1,
              st |-> [st EXCEPT !.sign = IF value < 0 THEN -1 ELSE 1,
                                !.hour = IF value < 0 THEN 0 - value ELSE value,
                                !.minute = 0]]
        ELSE [at |-> i + 1,
              st |-> IF st.hasReadNumber \/ Peek(tk, i + 1).k = "number"
                     THEN Invalid(st) ELSE st]

\* the legacy parser's reading of a UTC offset, after UTC or a time
legacyOffset(tk, i, st) ==
    LET numbered == Peek(tk, i + 1).k = "number"
        n == IF numbered THEN tk[i + 1].v ELSE 0
        length == IF numbered THEN tk[i + 1].n ELSE 0
        p == IF numbered THEN i + 2 ELSE i + 1
        signed == [st EXCEPT !.sign = asciiSign(tk[i]), !.hasReadNumber = TRUE]
    IN  [at |-> p,
         st |-> IF IsSymbol(Peek(tk, p), ":")
                THEN [signed EXCEPT !.hour = n, !.minute = -1]
                ELSE IF length \in {1, 2}
                THEN [signed EXCEPT !.hour = n, !.minute = 0]
                ELSE IF length \in {3, 4}
                THEN [signed EXCEPT !.hour = n \div 100, !.minute = n % 100]
                ELSE Invalid(st)]

\* one turn of the legacy parser's loop, on token i
legacyStep(tk, i, st) ==
    IF tk[i].k = "number" THEN legacyNumber(tk, i, st)
    ELSE IF tk[i].k = "keyword" THEN legacyKeyword(tk, i, st)
    ELSE IF IsAsciiSign(tk[i]) /\ ((st.hour = 0 /\ st.minute = 0) \/ st.time # <<>>)
    THEN legacyOffset(tk, i, st)
    ELSE IF (IsAsciiSign(tk[i]) \/ IsSymbol(tk[i], ")")) /\ st.hasReadNumber
    THEN [at |-> i + 1, st |-> Invalid(st)]
    ELSE [at |-> i + 1, st |-> st]

\* the legacy parser's loop, from token i on: it ends at the last token or
\* at the first one that cannot be read
legacy(tk, i, st) ==
    LET state(at, read) == [at |-> at, st |-> read, done |-> ~read.ok \/ at > Len(tk)]
        step(m) == the({state(r.at, r.st) : r \in {legacyStep(tk, m.at, m.st)}})
    IN  the({repeat(step, begin, Len(tk)).st : begin \in {state(i, st)}})

\* what the parser has read of the tokens tk
composed(tk) ==
    LET after(date) ==
            IF ~date.go THEN legacy(tk, date.at, Composers(date.day))
            ELSE IF IsKeywordType(Peek(tk, date.at), "TIME_SEPARATOR")
            THEN es5Time(tk, date.at + 1, date.day)
            ELSE IF Peek(tk, date.at).k = "end"
            THEN [Composers(date.day) EXCEPT !.iso = TRUE, !.sign = 1, !.hour = 0, !.minute = 0]
            ELSE legacy(tk, date.at, Composers(date.day))
    IN  the({after(date) : date \in {es5Date(tk)}})

\* the year, month and day of what was read: missing parts are 1, the order
\* is year-month-day unless the first number can be a day of the month, and
\* a year below 100 outside an ISO date is of 2000-2049 or 1950-1999
writeDay(st) ==
    LET comp == st.day \o [k \in 1..(3 - Len(st.day)) |-> 1]
        ymd == IF st.named = 0
               THEN IF st.iso \/ ~IsDay(comp[1]) THEN <<comp[1], comp[2], comp[3]>>
                    ELSE <<comp[3], comp[1], comp[2]>>
               ELSE IF ~IsDay(comp[1]) THEN <<comp[1], st.named, comp[2]>>
                    ELSE <<comp[2], st.named, comp[1]>>
        year == IF st.iso THEN ymd[1]
                ELSE IF ymd[1] \in 0..49 THEN ymd[1] + 2000
                ELSE IF ymd[1] \in 50..99 THEN ymd[1] + 1900
                ELSE ymd[1]
    IN  [ok |-> st.day # <<>> /\ IsMonth(ymd[2]) /\ IsDay(ymd[3]),
         year |-> year, month |-> ymd[2], day |-> ymd[3]]

\* the hour, minute, second and millisecond of what was read
writeTime(st) ==
    LET comp == st.time \o [k \in 1..(4 - Len(st.time)) |-> 0]
        hour == IF st.hourOffset = -1 THEN comp[1] ELSE (comp[1] % 12) + st.hourOffset
        inRange == /\ IsHour(hour) /\ IsMinute(comp[2])
                   /\ IsSecond(comp[3]) /\ IsMillisecond(comp[4])
        midnight == hour = 24 /\ comp[2] = 0 /\ comp[3] = 0 /\ comp[4] = 0
        ok == (st.hourOffset # -1 => comp[1] \in 0..12) /\ (inRange \/ midnight)
    IN  [ok |-> ok,
         ms |-> IF ok THEN ((hour * 60 + comp[2]) * 60 + comp[3]) * 1000 + comp[4] ELSE 0]

\* the offset of local time from UTC, in minutes, of the zones the
\* environment variable TZ may name here; each has had one offset always
LocalOffset == [zone \in Zones |-> IF zone = "Etc/GMT+5" THEN -300 ELSE 0]

\* the offset from UTC in seconds of what was read.  A zone that was read
\* gives hour * 3600 + minute * 60 in unsigned 32-bit arithmetic, here
\* 16 * sixteenths + units, and none that is above 2^31 - 1; with no zone the
\* time is local time
writeZone(st) ==
    LET hour == IF st.hour = -1 THEN 0 ELSE st.hour
        minute == IF st.minute = -1 THEN 0 ELSE st.minute
        high == (hour % 268435456) \div 16384
        low == hour % 16384
        \* hour * 225 mod 2^28
        hours == ((((high * 225) % 16384) * 16384) + low * 225) % 268435456
        sixteenths == (hours + (minute * 60) \div 16) % 268435456
        units == (minute * 60) % 16
    IN  IF st.sign = 0
        THEN [ok |-> TRUE, sign |-> IF LocalOffset[TZ] < 0 THEN -1 ELSE 1,
              seconds |-> 60 * (IF LocalOffset[TZ] < 0 THEN 0 - LocalOffset[TZ]
                                ELSE LocalOffset[TZ])]
        ELSE [ok |-> sixteenths < 134217728, sign |-> st.sign,
              seconds |-> IF sixteenths < 134217728 THEN 16 * sixteenths + units ELSE 0]

\* TimeClip: a time value further than 100,000,000 days from the epoch is NaN
TimeClip(time) ==
    IF \/ time.day < -100000000
       \/ time.day > 100000000
       \/ (time.day = 100000000 /\ time.ms > 0)
    THEN NaN ELSE time

\* Date.parse of the text s; a year out of the range of time values gives NaN
parse(s) ==
    LET timeValue(ok, day, time, zone) ==
            IF ~ok \/ ~day.ok \/ ~time.ok \/ ~zone.ok THEN NaN
            ELSE IF day.year \notin -300000..300000 THEN NaN
            ELSE the({TimeClip(date) :
                         date \in {Time(daysFromCivil(day.year, day.month, 1) + day.day - 1
                                          - zone.sign * (zone.seconds \div 86400),
                                       time.ms - zone.sign * (zone.seconds % 86400) * 1000)}})
        written(st) ==
            the({timeValue(st.ok, day, time, zone) :
                    day \in {writeDay(st)}, time \in {writeTime(st)}, zone \in {writeZone(st)}})
    IN  the({written(st) : st \in {composed(tk) : tk \in {dateTokens(text, 1) :
                                                               text \in {characters(s)}}}})

\* new Date(date) as a time value: null is the epoch, a string is parsed
dateValue(date) == IF IsNull(date) THEN Time(0, 0) ELSE parse(date.v)

\* x - y on time values
minus(x, y) ==
    IF x.t = "number" /\ y.t = "number" THEN Time(x.day - y.day, x.ms - y.ms) ELSE NaN

\* the comparator of detectClusters, (a, b) => new Date(a.date) - new Date(b.date),
\* on the time values x of a's date and y of b's
ascending(x, y) == minus(x, y)

\* the comparator of the lookup flows: new Date(b.date) - new Date(a.date)
descending(x, y) == minus(y, x)

\* the sign of a comparator's result as the sort reads it: a result that is
\* NaN counts as +0
orderOf(r) ==
    IF r.t = "NaN" THEN 0
    ELSE IF r.day < 0 THEN -1
    ELSE IF r.day = 0 /\ r.ms = 0 THEN 0
    ELSE 1

\* what the comparator named by answers for each two elements of arr: the
\* entry [i][j] is the sign of its result for arr[i] and arr[j].  The
\* comparator reads the two dates and nothing else, so the date of each
\* element is parsed once here and the sort looks the answers up
verdicts(arr, by) ==
    the({Array([i \in DOMAIN arr |->
                  Array([j \in DOMAIN arr |->
                           orderOf(IF by = "ascending"
                                   THEN ascending(timeValues[i], timeValues[j])
                                   ELSE descending(timeValues[i], timeValues[j]))])]) :
            timeValues \in {Array([i \in DOMAIN arr |-> dateValue(arr[i].date)])}})

\* the comparator called on the elements a and b, each named by its index
\* in the array the sort was called on
sortCompare(order, a, b) == order[a][b]

(* Array.prototype.sort with a comparator: the engine's merge sort of runs  *)
(* (TimSort).  Indices count from 0 as in the engine: the element at index *)
(* i of the array a is a[i + 1].  With a comparator that orders its inputs *)
(* consistently this is the stable sort; with one that does not, as a date *)
(* that is NaN makes it, the result is this procedure's.                   *)

\* target with the n elements of source from index from on at index to on
copy(source, from, target, to, n) ==
    Array([i \in DOMAIN target |->
             IF i - 1 >= to /\ i - 1 < to + n THEN source[from + i - to] ELSE target[i]])

computeMinRunLength(nArg) ==
    LET RECURSIVE halve(_, _)
        halve(n, r) == IF n < 64 THEN n + r ELSE halve(n \div 2, IF n % 2 = 1 THEN 1 ELSE r)
    IN  halve(nArg, 0)

\* the run of work[lowArg..high-1] that begins at lowArg, reversed when it
\* descends: its length and the array
countAndMakeRun(work, lowArg, high, by) ==
    LET low == lowArg + 1
        \* the loop over idx: it ends at the first element out of order
        runLength(isDescending) ==
            LET step(m) ==
                    IF isDescending = (sortCompare(by, work[m.idx + 1], work[m.idx]) >= 0)
                    THEN [m EXCEPT !.done = TRUE]
                    ELSE [idx |-> m.idx + 1, done |-> m.idx + 1 >= high]
            IN  repeat(step, [idx |-> low + 1, done |-> low + 1 >= high], high).idx - lowArg
        reversed(n) ==
            Array([i \in DOMAIN work |->
                     IF i - 1 >= lowArg /\ i - 1 < lowArg + n
                     THEN work[2 * lowArg + n + 1 - i] ELSE work[i]])
        makeRun(isDescending, n) ==
            [run |-> n, work |-> IF isDescending THEN reversed(n) ELSE work]
        run(isDescending) ==
            the({makeRun(isDescending, n) : n \in {runLength(isDescending)}})
    IN  IF low = high THEN [run |-> 1, work |-> work]
        ELSE the({run(isDescending) :
                     isDescending \in {sortCompare(by, work[low + 1], work[low]) < 0}})

\* work[low..high-1] sorted, work[low..startArg-1] being sorted already: each
\* further element goes to the place a binary search gives it
binaryInsertionSort(work, low, startArg, high, by) ==
    LET RECURSIVE place(_, _, _, _)
        place(a, pivot, left, right) ==
            IF left >= right THEN left
            ELSE the({IF sortCompare(by, pivot, a[mid + 1]) < 0
                      THEN place(a, pivot, left, mid)
                      ELSE place(a, pivot, mid + 1, right) :
                         mid \in {left + (right - left) \div 2}})
        insert(a, start, left) ==
            Array([i \in DOMAIN a |->
                     IF i - 1 < left \/ i - 1 > start THEN a[i]
                     ELSE IF i - 1 = left THEN a[start + 1]
                     ELSE a[i - 1]])
        \* the loop over start
        step(m) ==
            the({[a |-> insert(m.a, m.start, left), start |-> m.start + 1,
                  done |-> m.start + 1 >= high] :
                    left \in {place(m.a, m.a[m.start + 1], low, m.start)}})
        from(a, start) == repeat(step, [a |-> a, start |-> start, done |-> start >= high], high).a
    IN  the({from(a, IF low = startArg THEN startArg + 1 ELSE startArg) : a \in {work}})

\* the number of the elements of array[base..base+length-1], a sorted run,
\* that go before key (key going before its equals), found by steps of
\* doubling width from index hint and then by halving
gallopLeft(array, key, base, length, hint, by) ==
    LET before(i) == sortCompare(by, array[base + i + 1], key) < 0
        RECURSIVE rightwards(_, _, _), leftwards(_, _, _), halving(_, _)
        rightwards(lastOfs, offset, maxOfs) ==
            IF offset < maxOfs /\ before(hint + offset)
            THEN rightwards(offset, 2 * offset + 1, maxOfs)
            ELSE <<lastOfs + hint, Min({offset, maxOfs}) + hint>>
        leftwards(lastOfs, offset, maxOfs) ==
            IF offset < maxOfs /\ ~before(hint - offset)
            THEN leftwards(offset, 2 * offset + 1, maxOfs)
            ELSE <<hint - Min({offset, maxOfs}), hint - lastOfs>>
        halving(lastOfs, offset) ==
            IF lastOfs >= offset THEN offset
            ELSE the({IF before(m) THEN halving(m + 1, offset) ELSE halving(lastOfs, m) :
                         m \in {lastOfs + (offset - lastOfs) \div 2}})
    IN  the({halving(r[1] + 1, r[2]) :
                r \in {IF before(hint) THEN rightwards(0, 1, length - hint)
                       ELSE leftwards(0, 1, hint + 1)}})

\* the same, key going after its equals
gallopRight(array, key, base, length, hint, by) ==
    LET after(i) == sortCompare(by, key, array[base + i + 1]) < 0
        RECURSIVE rightwards(_, _, _), leftwards(_, _, _), halving(_, _)
        leftwards(lastOfs, offset, maxOfs) ==
            IF offset < maxOfs /\ after(hint - offset)
            THEN leftwards(offset, 2 * offset + 1, maxOfs)
            ELSE <<hint - Min({offset, maxOfs}), hint - lastOfs>>
        rightwards(lastOfs, offset, maxOfs) ==
            IF offset < maxOfs /\ ~after(hint + offset)
            THEN rightwards(offset, 2 * offset + 1, maxOfs)
            ELSE <<lastOfs + hint, Min({offset, maxOfs}) + hint>>
        halving(lastOfs, offset) ==
            IF lastOfs >= offset THEN offset
            ELSE the({IF after(m) THEN halving(lastOfs, m) ELSE halving(m + 1, offset) :
                         m \in {lastOfs + (offset - lastOfs) \div 2}})
    IN  the({halving(r[1] + 1, r[2]) :
                r \in {IF after(hint) THEN leftwards(0, 1, hint + 1)
                       ELSE rightwards(0, 1, length - hint)}})

kMinGallopWins == 7

\* the state of a merge before its loop: the cursors, the lengths left, the
\* wins in a row of each run, whether the loop is at its galloping part (and
\* at the first turn of it), minGallop as the merge counts it and as the
\* sort state holds it (stored)
mergeState(work, dest, cursorTemp, cursor, lengthA, lengthB, minGallop) ==
    [work |-> work, dest |-> dest, cursorTemp |-> cursorTemp, cursor |-> cursor,
     lengthA |-> lengthA, lengthB |-> lengthB, minGallop |-> minGallop,
     stored |-> minGallop, nofWinsA |-> 0, nofWinsB |-> 0, galloping |-> FALSE,
     firstIteration |-> FALSE, done |-> FALSE]

\* the merge of the adjacent runs A and B of work, A the shorter: A is set
\* aside in temp and the merge fills work from the left.  The merge takes
\* one element at a time until one run has won minGallop times in a row,
\* then whole stretches found by galloping.  Gives the array and minGallop
\* as the sort state holds it afterwards
mergeLow(workArg, minGallopArg, baseA, lengthAArg, baseB, lengthBArg, by) ==
    LET temp == SubSeq(workArg, baseA + 1, baseA + lengthAArg)
        finish(m, work) == [m EXCEPT !.work = work, !.done = TRUE]
        succeed(m) ==
            finish(m, IF m.lengthA > 0
                      THEN copy(temp, m.cursorTemp, m.work, m.dest, m.lengthA)
                      ELSE m.work)
        copyB(m) ==
            finish(m, Array([copy(m.work, m.cursor, m.work, m.dest, m.lengthB)
                               EXCEPT ![m.dest + m.lengthB + 1] = temp[m.cursorTemp + 1]]))
        takeB(m) ==
            [m EXCEPT !.work = Array([@ EXCEPT ![m.dest + 1] = m.work[m.cursor + 1]]),
                      !.dest = @ + 1, !.cursor = @ + 1, !.lengthB = @ - 1]
        takeA(m) ==
            [m EXCEPT !.work = Array([@ EXCEPT ![m.dest + 1] = temp[m.cursorTemp + 1]]),
                      !.dest = @ + 1, !.cursorTemp = @ + 1, !.lengthA = @ - 1]
        takeManyB(m, n) ==
            [m EXCEPT !.work = copy(@, m.cursor, @, m.dest, n),
                      !.dest = @ + n, !.cursor = @ + n, !.lengthB = @ - n]
        takeManyA(m, n) ==
            [m EXCEPT !.work = copy(temp, m.cursorTemp, @, m.dest, n),
                      !.dest = @ + n, !.cursorTemp = @ + n, !.lengthA = @ - n]
        \* the loop goes on, one element at a time or galloping
        oneAtATime(m, nofWinsA, nofWinsB) ==
            [m EXCEPT !.galloping = FALSE, !.nofWinsA = nofWinsA, !.nofWinsB = nofWinsB]
        gallop(m, nofWinsA, nofWinsB, firstIteration) ==
            [m EXCEPT !.galloping = TRUE, !.nofWinsA = nofWinsA, !.nofWinsB = nofWinsB,
                      !.firstIteration = firstIteration]
        wonB(m, nofWinsB) ==
            IF m.lengthB = 0 THEN succeed(m)
            ELSE IF nofWinsB >= m.minGallop
            THEN gallop([m EXCEPT !.minGallop = @ + 1], 0, nofWinsB, TRUE)
            ELSE oneAtATime(m, 0, nofWinsB)
        wonA(m, nofWinsA) ==
            IF m.lengthA = 1 THEN copyB(m)
            ELSE IF nofWinsA >= m.minGallop
            THEN gallop([m EXCEPT !.minGallop = @ + 1], nofWinsA, 0, TRUE)
            ELSE oneAtATime(m, nofWinsA, 0)
        \* one turn of the loop that takes one element at a time
        single(m) ==
            IF sortCompare(by, m.work[m.cursor + 1], temp[m.cursorTemp + 1]) < 0
            THEN the({wonB(next, m.nofWinsB + 1) : next \in {takeB(m)}})
            ELSE the({wonA(next, m.nofWinsA + 1) : next \in {takeA(m)}})
        \* the four steps of one turn of the galloping loop
        fourth(m, nofWinsA, nofWinsB) ==
            IF m.lengthA = 1 THEN copyB(m) ELSE gallop(m, nofWinsA, nofWinsB, FALSE)
        third(m, nofWinsA, nofWinsB) ==
            IF nofWinsB > 0 /\ m.lengthB = 0 THEN succeed(m)
            ELSE the({fourth(next, nofWinsA, nofWinsB) : next \in {takeA(m)}})
        second(m, nofWinsA) ==
            IF m.lengthB = 0 THEN succeed(m)
            ELSE the({the({third(next, nofWinsA, nofWinsB) :
                              next \in {IF nofWinsB > 0 THEN takeManyB(m, nofWinsB) ELSE m}}) :
                         nofWinsB \in {gallopLeft(m.work, temp[m.cursorTemp + 1],
                                                  m.cursor, m.lengthB, 0, by)}})
        first(m, nofWinsA) ==
            IF nofWinsA > 0 /\ m.lengthA = 1 THEN copyB(m)
            ELSE IF nofWinsA > 0 /\ m.lengthA = 0 THEN succeed(m)
            ELSE the({second(next, nofWinsA) : next \in {takeB(m)}})
        turn(m) ==
            the({the({first(next, nofWinsA) :
                         next \in {IF nofWinsA > 0 THEN takeManyA(m, nofWinsA) ELSE m}}) :
                    nofWinsA \in {gallopRight(temp, m.work[m.cursor + 1],
                                              m.cursorTemp, m.lengthA, 0, by)}})
        \* the head of the galloping loop: one more turn, or back to one
        \* element at a time
        galloping(m) ==
            IF m.nofWinsA >= kMinGallopWins \/ m.nofWinsB >= kMinGallopWins \/ m.firstIteration
            THEN the({turn(next) :
                         next \in {[m EXCEPT !.minGallop = Max({1, m.minGallop - 1}),
                                             !.stored = Max({1, m.minGallop - 1})]}})
            ELSE oneAtATime([m EXCEPT !.minGallop = @ + 1, !.stored = m.minGallop + 1], 0, 0)
        step(m) == IF m.galloping THEN galloping(m) ELSE single(m)
        start(m) ==
            IF m.lengthB = 0 THEN succeed(m)
            ELSE IF m.lengthA = 1 THEN copyB(m)
            ELSE m
        outcome(m) == [work |-> m.work, minGallop |-> m.stored]
    IN  the({outcome(repeat(step, begin, 2 * (lengthAArg + lengthBArg) + 2)) :
                begin \in {start(takeB(mergeState(workArg, baseA, 0, baseB, lengthAArg,
                                                  lengthBArg, minGallopArg)))}})

\* the same for B the shorter: B is set aside and the merge fills work from
\* the right
mergeHigh(workArg, minGallopArg, baseA, lengthAArg, baseB, lengthBArg, by) ==
    LET temp == SubSeq(workArg, baseB + 1, baseB + lengthBArg)
        finish(m, work) == [m EXCEPT !.work = work, !.done = TRUE]
        succeed(m) ==
            finish(m, IF m.lengthB > 0
                      THEN copy(temp, 0, m.work, m.dest - (m.lengthB - 1), m.lengthB)
                      ELSE m.work)
        copyA(m) ==
            finish(m, Array([copy(m.work, m.cursor - m.lengthA + 1, m.work,
                                  m.dest - m.lengthA + 1, m.lengthA)
                               EXCEPT ![m.dest - m.lengthA + 1] = temp[m.cursorTemp + 1]]))
        takeA(m) ==
            [m EXCEPT !.work = Array([@ EXCEPT ![m.dest + 1] = m.work[m.cursor + 1]]),
                      !.dest = @ - 1, !.cursor = @ - 1, !.lengthA = @ - 1]
        takeB(m) ==
            [m EXCEPT !.work = Array([@ EXCEPT ![m.dest + 1] = temp[m.cursorTemp + 1]]),
                      !.dest = @ - 1, !.cursorTemp = @ - 1, !.lengthB = @ - 1]
        takeManyA(m, n) ==
            [m EXCEPT !.work = copy(@, m.cursor - n + 1, @, m.dest - n + 1, n),
                      !.dest = @ - n, !.cursor = @ - n, !.lengthA = @ - n]
        takeManyB(m, n) ==
            [m EXCEPT !.work = copy(temp, m.cursorTemp - n + 1, @, m.dest - n + 1, n),
                      !.dest = @ - n, !.cursorTemp = @ - n, !.lengthB = @ - n]
        oneAtATime(m, nofWinsA, nofWinsB) ==
            [m EXCEPT !.galloping = FALSE, !.nofWinsA = nofWinsA, !.nofWinsB = nofWinsB]
        gallop(m, nofWinsA, nofWinsB, firstIteration) ==
            [m EXCEPT !.galloping = TRUE, !.nofWinsA = nofWinsA, !.nofWinsB = nofWinsB,
                      !.firstIteration = firstIteration]
        wonA(m, nofWinsA) ==
            IF m.lengthA = 0 THEN succeed(m)
            ELSE IF nofWinsA >= m.minGallop
            THEN gallop([m EXCEPT !.minGallop = @ + 1], nofWinsA, 0, TRUE)
            ELSE oneAtATime(m, nofWinsA, 0)
        wonB(m, nofWinsB) ==
            IF m.lengthB = 1 THEN copyA(m)
            ELSE IF nofWinsB >= m.minGallop
            THEN gallop([m EXCEPT !.minGallop = @ + 1], 0, nofWinsB, TRUE)
            ELSE oneAtATime(m, 0, nofWinsB)
        single(m) ==
            IF sortCompare(by, temp[m.cursorTemp + 1], m.work[m.cursor + 1]) < 0
            THEN the({wonA(next, m.nofWinsA + 1) : next \in {takeA(m)}})
            ELSE the({wonB(next, m.nofWinsB + 1) : next \in {takeB(m)}})
        fourth(m, nofWinsA, nofWinsB) ==
            IF m.lengthA = 0 THEN succeed(m) ELSE gallop(m, nofWinsA, nofWinsB, FALSE)
        third(m, nofWinsA, nofWinsB) ==
            IF nofWinsB > 0 /\ m.lengthB = 1 THEN copyA(m)
            ELSE IF nofWinsB > 0 /\ m.lengthB = 0 THEN succeed(m)
            ELSE the({fourth(next, nofWinsA, nofWinsB) : next \in {takeA(m)}})
        second(m, nofWinsA) ==
            IF m.lengthB = 1 THEN copyA(m)
            ELSE the({the({third(next, nofWinsA, nofWinsB) :
                              next \in {IF nofWinsB > 0 THEN takeManyB(m, nofWinsB) ELSE m}}) :
                         nofWinsB \in {m.lengthB - gallopLeft(temp, m.work[m.cursor + 1], 0,
                                                              m.lengthB, m.lengthB - 1, by)}})
        first(m, nofWinsA) ==
            IF nofWinsA > 0 /\ m.lengthA = 0 THEN succeed(m)
            ELSE the({second(next, nofWinsA) : next \in {takeB(m)}})
        turn(m) ==
            the({the({first(next, nofWinsA) :
                         next \in {IF nofWinsA > 0 THEN takeManyA(m, nofWinsA) ELSE m}}) :
                    nofWinsA \in {m.lengthA - gallopRight(m.work, temp[m.cursorTemp + 1], baseA,
                                                          m.lengthA, m.lengthA - 1, by)}})
        galloping(m) ==
            IF m.nofWinsA >= kMinGallopWins \/ m.nofWinsB >= kMinGallopWins \/ m.firstIteration
            THEN the({turn(next) :
                         next \in {[m EXCEPT !.minGallop = Max({1, m.minGallop - 1}),
                                             !.stored = Max({1, m.minGallop - 1})]}})
            ELSE oneAtATime([m EXCEPT !.minGallop = @ + 1, !.stored = m.minGallop + 1], 0, 0)
        step(m) == IF m.galloping THEN galloping(m) ELSE single(m)
        start(m) ==
            IF m.lengthA = 0 THEN succeed(m)
            ELSE IF m.lengthB = 1 THEN copyA(m)
            ELSE m
        outcome(m) == [work |-> m.work, minGallop |-> m.stored]
    IN  the({outcome(repeat(step, begin, 2 * (lengthAArg + lengthBArg) + 2)) :
                begin \in {start(takeA(mergeState(workArg, baseB + lengthBArg - 1,
                                                  lengthBArg - 1, baseA + lengthAArg - 1,
                                                  lengthAArg, lengthBArg, minGallopArg)))}})

\* the sort state st with the pending runs i and i + 1 merged into one: the
\* first k elements of A and the last of B, which are in place already, are
\* left out of the merge
mergeAt(st, i, by) ==
    LET a == st.runs[i + 1]
        b == st.runs[i + 2]
        runs == Array([k \in 1..(Len(st.runs) - 1) |->
                         IF k = i + 1 THEN [base |-> a.base, length |-> a.length + b.length]
                         ELSE IF k <= i THEN st.runs[k]
                         ELSE st.runs[k + 1]])
    IN  the({IF a.length - k = 0 THEN [st EXCEPT !.runs = runs]
             ELSE the({IF lengthB = 0 THEN [st EXCEPT !.runs = runs]
                       ELSE the({[st EXCEPT !.work = r.work, !.runs = runs,
                                            !.minGallop = r.minGallop] :
                                    r \in {IF a.length - k <= lengthB
                                           THEN mergeLow(st.work, st.minGallop, a.base + k,
                                                         a.length - k, b.base, lengthB, by)
                                           ELSE mergeHigh(st.work, st.minGallop, a.base + k,
                                                          a.length - k, b.base, lengthB,
                                                          by)}}) :
                          lengthB \in {gallopLeft(st.work, st.work[a.base + a.length],
                                                  b.base, b.length, b.length - 1, by)}}) :
                k \in {gallopRight(st.work, st.work[b.base + 1], a.base, a.length, 0, by)}})

\* whether the run n of the pending ones is shorter than the run two below
\* it by more than the run between them
runInvariantEstablished(runs, n) ==
    n < 2 \/ runs[n - 1].length > runs[n].length + runs[n + 1].length

\* one turn of the loop of mergeCollapse: the pending run to merge with the
\* one above it, or none (-1) when the lengths decrease as the sort requires
mergeCollapseStep(st, by) ==
    LET n == Len(st.runs) - 2
        length(k) == st.runs[k + 1].length
        at == IF Len(st.runs) <= 1 THEN -1
              ELSE IF \/ ~runInvariantEstablished(st.runs, n + 1)
                      \/ ~runInvariantEstablished(st.runs, n)
              THEN IF length(n - 1) < length(n + 1) THEN n - 1 ELSE n
              ELSE IF length(n) <= length(n + 1) THEN n
              ELSE -1
    IN  IF at < 0 THEN [st EXCEPT !.done = TRUE] ELSE mergeAt(st, at, by)

\* the pending runs merged until the lengths on the stack decrease as the
\* sort requires
mergeCollapse(stArg, by) ==
    the({[repeat(LAMBDA m : mergeCollapseStep(m, by), st, Len(st.runs) + 1)
            EXCEPT !.done = FALSE] : st \in {stArg}})

\* one turn of the loop of mergeForceCollapse
mergeForceCollapseStep(st, by) ==
    LET n == Len(st.runs) - 2
        length(k) == st.runs[k + 1].length
    IN  IF Len(st.runs) <= 1 THEN [st EXCEPT !.done = TRUE]
        ELSE mergeAt(st, IF n > 0 /\ length(n - 1) < length(n + 1) THEN n - 1 ELSE n, by)

\* all the pending runs merged into one
mergeForceCollapse(stArg, by) ==
    the({[repeat(LAMBDA m : mergeForceCollapseStep(m, by), st, Len(st.runs) + 1)
            EXCEPT !.done = FALSE] : st \in {stArg}})

\* one turn of the loop over the runs: the run that begins at st.low is
\* counted, filled up by insertion when it is shorter than the minimal
\* length, and pushed, and the pending runs are merged
timSortStep(st, minRunLength, by) ==
    the({the({the({[low |-> st.low + length, remaining |-> st.remaining - length,
                    sorting |-> next, done |-> st.remaining - length = 0] :
                      next \in {mergeCollapse(
                                   [st.sorting EXCEPT
                                       !.work = IF r.run < minRunLength
                                                THEN binaryInsertionSort(r.work, st.low,
                                                                         st.low + r.run,
                                                                         st.low + length, by)
                                                ELSE r.work,
                                       !.runs = Append(@, [base |-> st.low,
                                                          length |-> length])],
                                   by)}}) :
                 length \in {IF r.run < minRunLength
                             THEN Min({minRunLength, st.remaining})
                             ELSE r.run}}) :
            r \in {countAndMakeRun(st.sorting.work, st.low, st.low + st.remaining, by)}})

\* the array sorted: it is cut into runs from the left, a run shorter than
\* the minimal length being filled up by insertion, and the runs are merged
timSort(a, by) ==
    IF Len(a) < 2 THEN a
    ELSE mergeForceCollapse(
             the({repeat(LAMBDA m : timSortStep(m, minRunLength, by),
                         [low |-> 0, remaining |-> Len(a), done |-> FALSE,
                          sorting |-> [work |-> a, runs |-> <<>>,
                                       minGallop |-> kMinGallopWins, done |-> FALSE]],
                         Len(a)) :
                     minRunLength \in {computeMinRunLength(Len(a))}}).sorting,
             by).work

\* Array.prototype.sort(comparator) on arr: the sort moves the elements, here
\* their indices, by what the comparator answers
sort(arr, by) ==
    the({the({Array([k \in DOMAIN a |-> a[moved[k]]]) :
                 moved \in {timSort(Array([i \in DOMAIN a |-> i]), verdicts(a, by))}}) :
            a \in {Array(arr)}})

-----------------------------------------------------------------------------
(* detectClusters *)

\* the elements of s without repetitions, in order of first occurrence: the
\* iteration order of new Set(s)
firstOccurrences(s) ==
    LET first == SelectSeq([i \in DOMAIN s |-> i],
                           LAMBDA i : \A j \in 1..(i - 1) : s[j] # s[i])
    IN  Array([k \in DOMAIN first |-> s[first[k]]])
distinct(s) == the({firstOccurrences(v) : v \in {Array(s)}})

MaxArrayIndex == <<"4", "2", "9", "4", "9", "6", "7", "2", "9", "4">>

\* a < b for two numerals without leading zeros
numericBefore(a, b) ==
    \/ Len(a) < Len(b)
    \/ /\ Len(a) = Len(b)
       /\ \E i \in DOMAIN a :
             /\ DigitValue(a[i]) < DigitValue(b[i])
             /\ \A j \in 1..(i - 1) : a[j] = b[j]

\* a property key that is an array index: the numeral of an integer from 0
\* to 2^32 - 2, written without leading zeros
isArrayIndex(key) ==
    /\ key # <<>>
    /\ \A i \in DOMAIN key : IsDigit(key[i])
    /\ Len(key) = 1 \/ key[1] # "0"
    /\ key = MaxArrayIndex \/ numericBefore(key, MaxArrayIndex)

\* Object.entries of an object whose keys were added in the order added:
\* the array indices in ascending order, then the other keys as added
ownKeys(added) ==
    LET indices == SelectSeq(added, LAMBDA key : isArrayIndex(key))
        names == SelectSeq(added, LAMBDA key : ~isArrayIndex(key))
        rank(key) == Cardinality({o \in Range(indices) : numericBefore(o, key)})
    IN  Array([k \in DOMAIN indices |->
                 CHOOSE key \in Range(indices) : rank(key) = k - 1]) \o names

\* the own properties of Object.prototype: what byTicker[name] finds, by
\* inheritance, in the empty object literal of line 214
PrototypeProperties ==
    {<<"c", "o", "n", "s", "t", "r", "u", "c", "t", "o", "r">>,
     <<"_", "_", "d", "e", "f", "i", "n", "e", "G", "e", "t", "t", "e", "r", "_", "_">>,
     <<"_", "_", "d", "e", "f", "i", "n", "e", "S", "e", "t", "t", "e", "r", "_", "_">>,
     <<"h", "a", "s", "O", "w", "n", "P", "r", "o", "p", "e", "r", "t", "y">>,
     <<"_", "_", "l", "o", "o", "k", "u", "p", "G", "e", "t", "t", "e", "r", "_", "_">>,
     <<"_", "_", "l", "o", "o", "k", "u", "p", "S", "e", "t", "t", "e", "r", "_", "_">>,
     <<"i", "s", "P", "r", "o", "t", "o", "t", "y", "p", "e", "O", "f">>,
     <<"p", "r", "o", "p", "e", "r", "t", "y", "I", "s", "E", "n", "u", "m", "e", "r", "a", "b", "l", "e">>,
     <<"t", "o", "S", "t", "r", "i", "n", "g">>,
     <<"v", "a", "l", "u", "e", "O", "f">>,
     <<"_", "_", "p", "r", "o", "t", "o", "_", "_">>,
     <<"t", "o", "L", "o", "c", "a", "l", "e", "S", "t", "r", "i", "n", "g">>}

\* how a call ends: it returns a value or it throws
Return(value) == [type |-> "return", value |-> value]
Throw(error) == [type |-> "throw", error |-> error]

(* Objects have identity.  heap[address] is the object at an address: a    *)
(* trade record, or an array, which holds the addresses of its elements.   *)
(* A new object gets the next address; an object is written at its own.    *)

\* the array arr of a caller and its records as objects: the records at the
\* addresses 1..Len(arr) and the array at Len(arr) + 1
heapOf(arr) ==
    Array([i \in DOMAIN arr |-> arr[i]]) \o <<Array([i \in DOMAIN arr |-> i])>>

\* the elements of the array at an address, read as values
elementsOf(heap, array) ==
    Array([k \in DOMAIN heap[array] |-> heap[heap[array][k]]])

\* array.sort(comparator) on the array at an address: the sort moves the
\* elements within that array
sortInPlace(heap, array, by) ==
    the({[heap EXCEPT ![array] = Array([k \in DOMAIN moved |-> moved[k].address])] :
            moved \in {sort(Array([k \in DOMAIN heap[array] |->
                                     [address |-> heap[array][k],
                                      date |-> heap[heap[array][k]].date]]), by)}})

\* lines 215-218, one turn of the loop over the array at arg, read at the
\* index m.i as the array iterator does.  m.keys are the own keys of byTicker
\* in the order added and m.arrays the addresses of their values.  Line 217:
\* a key byTicker has already gets the record pushed on its array; a key that
\* names a property of Object.prototype finds the inherited value, which is
\* not nullish, so nothing is assigned, and it has no push: the call throws;
\* any other key gets a new array, [], and the record is pushed on that
groupStep(m, arg) ==
    IF m.i > Len(m.heap[arg]) THEN [m EXCEPT !.done = TRUE]
    ELSE LET t == m.heap[arg][m.i]
             key == m.heap[t].ticker
             own == {k \in DOMAIN m.keys : m.keys[k] = key}
         IN  IF m.heap[t].type # "BUY" THEN [m EXCEPT !.i = @ + 1]
             ELSE IF own # {}
             THEN [m EXCEPT !.i = @ + 1, !.heap[m.arrays[the(own)]] = Append(@, t)]
             ELSE IF key \in PrototypeProperties
             THEN [m EXCEPT !.thrown = TRUE, !.done = TRUE]
             ELSE [m EXCEPT !.i = @ + 1,
                            !.heap = Append(@, <<t>>),
                            !.keys = Append(@, key),
                            !.arrays = Append(@, Len(m.heap) + 1)]

\* lines 214-218: byTicker after the loop, and the heap with its arrays
byTicker(heap, arg) ==
    repeat(LAMBDA m : groupStep(m, arg),
           [i |-> 1, heap |-> heap, keys |-> <<>>, arrays |-> <<>>,
            thrown |-> FALSE, done |-> FALSE],
           Len(heap[arg]) + 1)

\* Object.entries(byTicker): the keys in the order of ownKeys, each with the
\* address of its array
entriesOf(keys, arrays) ==
    the({Array([k \in DOMAIN listed |->
                  [key |-> listed[k],
                   value |-> arrays[CHOOSE i \in DOMAIN keys : keys[i] = listed[k]]]]) :
            listed \in {ownKeys(keys)}})

\* line 228: (last - first) / 86400000 <= windowDays, false when a date is
\* invalid
withinWindow(first, last, window) ==
    the({span.t = "number" /\ (span.day < window \/ (span.day = window /\ span.ms = 0)) :
            span \in {the({minus(y, x) : x \in {first}, y \in {last}})}})

\* line 224: the insiders of the buys, each once, in order of first occurrence
insidersOf(buys) == distinct([i \in DOMAIN buys |-> buys[i].insider])

\* lines 224-231 for the array at the address buys, sorted, whose elements
\* read as values are rows: <<the cluster>>, which holds that array, or <<>>
clusterFrom(ticker, buys, rows, insiders, window) ==
    IF Len(insiders) >= 2
       /\ withinWindow(dateValue(rows[1].date), dateValue(rows[Len(rows)].date), window)
    THEN <<[ticker |-> ticker, count |-> Len(insiders),
            insiders |-> insiders, buys |-> buys]>>
    ELSE <<>>

\* variant of sortBuys in which line 222 sorts the array the caller passed
sortTrades(heap, arg, buys) == sortInPlace(heap, arg, "ascending")

\* line 222, buys.sort(...): the array of the ticker is sorted in place
sortBuys(heap, arg, buys) == sortInPlace(heap, buys, "ascending")

\* lines 220-231, one turn of the loop over the entries of byTicker
clusterStep(m, entries, arg, window) ==
    IF m.k > Len(entries) THEN [m EXCEPT !.done = TRUE]
    ELSE IF Len(m.heap[entries[m.k].value]) < 2 THEN [m EXCEPT !.k = @ + 1]
    ELSE the({the({[k |-> m.k + 1, heap |-> heap, done |-> FALSE,
                    clusters |-> m.clusters \o
                                 clusterFrom(entries[m.k].key, entries[m.k].value, rows,
                                             insidersOf(rows), window)] :
                      rows \in {elementsOf(heap, entries[m.k].value)}}) :
                 heap \in {sortBuys(m.heap, arg, entries[m.k].value)}})

\* lines 219-232: the clusters, and the heap after the loop
clustersOf(heap, entries, arg, window) ==
    repeat(LAMBDA m : clusterStep(m, entries, arg, window),
           [k |-> 1, heap |-> heap, clusters |-> <<>>, done |-> FALSE],
           Len(entries) + 1)

\* lines 213-233 for the array at the address arg: how the call ends,
\* with the clusters or with the error of line 217, and the heap it leaves
detectClusters(heap, arg, window) ==
    the({IF grouped.thrown
         THEN [heap |-> grouped.heap,
               outcome |-> Throw("TypeError: byTicker[t.ticker].push is not a function")]
         ELSE the({[heap |-> looped.heap, outcome |-> Return(looped.clusters)] :
                      looped \in {clustersOf(grouped.heap,
                                             entriesOf(grouped.keys, grouped.arrays),
                                             arg, window)}}) :
            grouped \in {byTicker(heap, arg)}})

\* the clusters of a completion with the array of each read as values
readClusters(heap, outcome) ==
    IF outcome.type = "throw" THEN outcome
    ELSE Return(Array([k \in DOMAIN outcome.value |->
                         [outcome.value[k] EXCEPT !.buys = elementsOf(heap, @)]]))

\* detectClusters called by a caller that holds the array arr: what the
\* caller reads in its array after the call, and what it reads in the result
callDetectClusters(arr, window) ==
    the({the({[argument |-> elementsOf(run.heap, Len(a) + 1),
               outcome |-> readClusters(run.heap, run.outcome)] :
                 run \in {detectClusters(heapOf(a), Len(a) + 1, window)}}) :
            a \in {Array(arr)}})

-----------------------------------------------------------------------------
(* Documents the parser is run on.  A document is written from a header     *)
(* (issuer and reporting owner) and a list of transaction blocks; each     *)
(* block has an element name, a transaction code text (or none) and a body *)
(* holding the date and the amounts.                                       *)

El(tag, content) == <<Open(tag)>> \o content \o <<Close(tag)>>

Date0102 == <<"1", "9", "7", "0", "-", "0", "1", "-", "0", "2">>
Date0109 == <<"1", "9", "7", "0", "-", "0", "1", "-", "0", "9">>
Date0110 == <<"1", "9", "7", "0", "-", "0", "1", "-", "1", "0">>
Date1231 == <<"1", "9", "6", "9", "-", "1", "2", "-", "3", "1">>
\* a text that is no date
DateBad == <<"b", "a", "d">>

\* officer and director of issuer x; the name is written with stray blanks
HeaderJane ==
    El("issuer", El("issuerTradingSymbol", <<"x">>))
    \o El("reportingOwner",
          El("rptOwnerName", <<" ", "j", "a", "n", "e", " ", " ", "D", "O", "E">>)
          \o El("reportingOwnerRelationship",
                El("isDirector", <<"1">>) \o El("officerTitle", <<"C", "E", "O">>)))
\* a director of issuer X
HeaderRoe ==
    El("issuer", El("issuerTradingSymbol", <<"X">>))
    \o El("reportingOwner",
          El("rptOwnerName", <<"R", "O", "E">>)
          \o El("reportingOwnerRelationship", El("isDirector", <<"t", "r", "u", "e">>)))
\* issuer msft, no reporting owner at all
HeaderNoOwner == El("issuer", El("issuerTradingSymbol", <<"m", "s", "f", "t">>))

\* neither a trading symbol nor a reporting owner
HeaderBare == El("issuer", <<>>)

Headers == {HeaderJane, HeaderRoe, HeaderNoOwner, HeaderBare}

\* date and amounts as flat texts: 100 shares at 10.5
BodyFlat ==
    El("transactionDate", Date0102)
    \o El("transactionShares", <<"1", "0", "0">>)
    \o El("transactionPricePerShare", <<"1", "0", ".", "5">>)
\* date and amounts each wrapped in <value>, as EDGAR writes them
BodyNested ==
    El("transactionDate", El("value", Date0109))
    \o El("transactionAmounts",
          El("transactionShares", <<"\r", "\n", " ">> \o El("value", <<"1", "0", "0">>) \o <<"\r", "\n">>)
          \o El("transactionPricePerShare", El("value", <<"1", "0">>)))
\* only the fallback field for the shares, on a line of its own; no price,
\* no date
BodyFallback == El("sharesAmount", <<"\r", "\n", "7", ".", "2", "5", "\r", "\n">>)
\* negative amounts
BodyNegative ==
    El("transactionDate", Date0110)
    \o El("transactionShares", <<"-", "5">>)
    \o El("pricePerShare", <<"-", "2">>)
\* nothing but an empty date
BodyEmpty == El("transactionDate", <<" ">>)

Bodies == {BodyFlat, BodyNested, BodyFallback, BodyNegative, BodyEmpty}

\* the transaction code of a block: its text (NullStr: the block has no
\* transactionCode element) and whether the text is written on a line of its
\* own, between white space
Codes ==
    {[text |-> Str(t), padded |-> FALSE] : t \in {<<"P">>, <<"S">>, <<"A">>, <<"p">>}}
    \cup {[text |-> Str(<<"P">>), padded |-> TRUE], [text |-> NullStr, padded |-> FALSE]}

Blocks ==
    {[element |-> "nonDerivativeTransaction", code |-> c, body |-> b] :
        c \in Codes, b \in Bodies}
    \cup {[element |-> "derivativeTransaction",
           code |-> [text |-> Str(<<"P">>), padded |-> FALSE], body |-> BodyFlat]}

renderCode(c) ==
    IF IsNull(c.text) THEN <<>>
    ELSE El("transactionCoding",
            El("transactionCode",
               IF c.padded THEN <<"\r", "\n", " ">> \o c.text.v \o <<"\r", "\n">>
               ELSE c.text.v))

renderBlock(b) == El(b.element, renderCode(b.code) \o b.body)

render(f) ==
    El("ownershipDocument",
       f.header \o Concat([k \in DOMAIN f.blocks |-> renderBlock(f.blocks[k])]))

SeqsUpTo(S, n) == UNION {[1..k -> S] : k \in 0..n}

Filings == {[header |-> h, blocks |-> bs] : h \in Headers, bs \in SeqsUpTo(Blocks, MaxBlocks)}

-----------------------------------------------------------------------------
(* The variables of the other specifications while one of them runs *)

IdleParse == filing = Null /\ xml = <<>> /\ parsed = Null
IdleCluster == trades = <<>> /\ tradesIn = <<>> /\ windowDays = 0 /\ results = <<>>
IdlePerm == docsA = <<>> /\ docsB = <<>> /\ runA = Null /\ runB = Null
IdleFlow ==
    /\ opts = Null /\ pc = "idle" /\ queue = 0 /\ found = 0 /\ processed = 0
    /\ allTrades = <<>> /\ fetched = <<>> /\ merged = Null /\ clusters = Null
    /\ stdout = Null /\ errors = 0 /\ exitCode = Null /\ inFlight = 0
    /\ filingReqs = 0 /\ delayed = FALSE /\ failures = Null

-----------------------------------------------------------------------------
(* SpecParse: parseForm4Transactions applied to one document *)

InitParse ==
    /\ TZ \in Zones
    /\ filing \in Filings
    /\ xml = render(filing)
    /\ parsed = Null
    /\ IdleCluster /\ IdlePerm /\ IdleFlow

ParseCall ==
    /\ IsNull(parsed)
    /\ parsed' = [t |-> "array", v |-> parseForm4Transactions(xml)]
    /\ UNCHANGED <<TZ, filing, xml, clusterVars, permVars, flowVars>>

NextParse == ParseCall

SpecParse == InitParse /\ [][NextParse]_vars

-----------------------------------------------------------------------------
(* SpecCluster: detectClusters called, up to twice, on one array *)

mkTrade(ticker, insider, type, date) ==
    [ticker |-> ticker, insider |-> insider, title |-> <<>>, type |-> type,
     shares |-> Num(100), price |-> Num(10), value |-> Num(1000), date |-> date]

TickerPool == {<<"X">>, <<"7">>}
InsiderPool == {<<"A", "l">>, <<"B", "o">>}
\* the ninth of January 1970 written without a zone: local time
DateLocal == <<"1", "/", "9", "/", "1", "9", "7", "0">>
DatePool == {NullStr, Str(Date0102), Str(DateLocal), Str(Date0110), Str(DateBad)}

\* a ticker that names a property of Object.prototype
TickerInherited == <<"t", "o", "S", "t", "r", "i", "n", "g">>

TradePool ==
    {mkTrade(k, i, "BUY", d) : k \in TickerPool, i \in InsiderPool, d \in DatePool}
    \cup {mkTrade(k, <<"A", "l">>, "SELL", d) : k \in TickerPool,
                                                 d \in {Str(Date0102), Str(Date0110)}}
    \cup {mkTrade(TickerInherited, <<"A", "l">>, type, Str(Date0102)) : type \in {"BUY", "SELL"}}

WindowPool == {1, DefaultWindowDays}

InitCluster ==
    /\ TZ \in Zones
    /\ trades \in SeqsUpTo(TradePool, MaxTrades)
    /\ tradesIn = trades
    /\ windowDays \in WindowPool
    /\ results = <<>>
    /\ IdleParse /\ IdlePerm /\ IdleFlow

DetectCall ==
    /\ Len(results) < 2
    /\ \E call \in {callDetectClusters(trades, windowDays)} :
          /\ results' = Append(results, call.outcome)
          /\ trades' = call.argument
    /\ UNCHANGED <<TZ, tradesIn, windowDays, parseVars, permVars, flowVars>>

NextCluster == DetectCall

SpecCluster == InitCluster /\ [][NextCluster]_vars

-----------------------------------------------------------------------------
(* The collector: allTrades.push(...trades) for each fetched document *)

\* variant of appendTrades that leaves out records already collected
appendTradesOnce(all, new) ==
    all \o SelectSeq(new, LAMBDA t : t \notin Range(all))

\* lines 259, 322 and 335: allTrades.push(...trades)
appendTrades(all, new) == all \o new

RECURSIVE collectFirst(_, _)
collectFirst(docs, n) ==
    IF n = 0 THEN <<>>
    ELSE appendTrades(collectFirst(docs, n - 1), parseForm4Transactions(docs[n]))

collect(docs) == the({collectFirst(d, Len(d)) : d \in {Array(docs)}})

\* variant of sorted that leaves the merge order
sortedUnsorted(all) == all

\* lines 272 and 351: allTrades.sort(...)
sorted(all) == sort(all, "descending")

\* lines 273-276 and 352-354: the array handed to table and to detectClusters,
\* and the clusters returned unless the call threw
reportOf(rows) ==
    LET ended(outcome) ==
            [t |-> "report", rows |-> rows, detectInput |-> rows,
             threw |-> outcome.type = "throw",
             clusters |-> IF outcome.type = "throw" THEN <<>> ELSE outcome.value]
    IN  the({ended(outcome) : outcome \in {callDetectClusters(rows, DefaultWindowDays).outcome}})

report(all) == the({reportOf(rows) : rows \in {sorted(all)}})

(* The filings the lookup flows may be served *)

BodyOld ==
    El("transactionDate", Date1231)
    \o El("transactionShares", <<"3">>)
    \o El("transactionPricePerShare", <<"2">>)
BodyBad ==
    El("transactionDate", DateBad)
    \o El("transactionShares", <<"3">>)
    \o El("transactionPricePerShare", <<"2">>)

codeOf(text) == [text |-> Str(text), padded |-> FALSE]
ndBlock(text, body) ==
    [element |-> "nonDerivativeTransaction", code |-> codeOf(text), body |-> body]

\* the text of the document named name:
\*   jane   Jane Doe buys X on 1970-01-02
\*   roe    Roe buys X on the same day and sells on an unknown date
\*   grant  a grant only: no transaction to report
\*   old    Roe buys X on 1970-01-09 and reports a sale of 1969-12-31
\*   bad    Roe reports a sale whose date is no date, then buys X on 1970-01-09
documentText(name) ==
    CASE name = "jane" ->
            render([header |-> HeaderJane, blocks |-> <<ndBlock(<<"P">>, BodyFlat)>>])
      [] name = "roe" ->
            render([header |-> HeaderRoe,
                    blocks |-> <<ndBlock(<<"P">>, BodyFlat), ndBlock(<<"S">>, BodyFallback)>>])
      [] name = "grant" ->
            render([header |-> HeaderJane, blocks |-> <<ndBlock(<<"A">>, BodyFlat)>>])
      [] name = "old" ->
            render([header |-> HeaderRoe,
                    blocks |-> <<ndBlock(<<"P">>, BodyNested), ndBlock(<<"S">>, BodyOld)>>])
      [] name = "bad" ->
            render([header |-> HeaderRoe,
                    blocks |-> <<ndBlock(<<"S">>, BodyBad), ndBlock(<<"P">>, BodyNested)>>])

FlowDocs == {"jane", "roe", "grant", "old", "bad"}

\* what the parser returns for each of them (evaluated once)
parsedDocument == [name \in FlowDocs |-> parseForm4Transactions(documentText(name))]

\* the texts of the documents named by names
texts(names) == [k \in DOMAIN names |-> documentText(names[k])]

-----------------------------------------------------------------------------
(* SpecPerm: the same documents collected in two orders *)

orders(s) ==
    {[i \in DOMAIN s |-> s[f[i]]] :
        f \in {g \in [DOMAIN s -> DOMAIN s] : \A i, j \in DOMAIN s : g[i] = g[j] => i = j}}

InitPerm ==
    /\ TZ \in Zones
    /\ docsA \in SeqsUpTo(FlowDocs, MaxDocs)
    /\ docsB \in orders(docsA)
    /\ runA = Null /\ runB = Null
    /\ IdleParse /\ IdleCluster /\ IdleFlow

CollectA ==
    /\ IsNull(runA)
    /\ runA' = report(collect(texts(docsA)))
    /\ UNCHANGED <<TZ, docsA, docsB, runB, parseVars, clusterVars, flowVars>>

CollectB ==
    /\ IsNull(runB)
    /\ runB' = report(collect(texts(docsB)))
    /\ UNCHANGED <<TZ, docsA, docsB, runA, parseVars, clusterVars, flowVars>>

NextPerm == CollectA \/ CollectB

SpecPerm == InitPerm /\ [][NextPerm]_vars

-----------------------------------------------------------------------------
(* Spec: one invocation of the command.  main calls lookupTicker or         *)
(* lookupRecent inside a try; each function runs until its next await, so  *)
(* pc is the await (or loop position) it is suspended at:                  *)
(*   main    before the call                                               *)
(*   feed    awaiting the company feed or the search                       *)
(*   loop    at the head of the for loop over the filings                  *)
(*   delay   awaiting the 150 ms timer                                     *)
(*   fetch   about to fetch the filing                                     *)
(*   index   awaiting the filing's first response                          *)
(*   xml     awaiting the response for the filing's XML document           *)
(*   report  past the loop                                                 *)
(*   done    the process has ended                                         *)
(* Every response is drawn when it arrives: a failure (the fetch rejects,  *)
(* the status is not ok, the body cannot be read) or one of the answers    *)
(* the code tells apart.                                                   *)

\* parseInt(text, 10): the integer written at the start of text, after white
\* space and a sign, or NaN.  The integer n is the number Time(0, n)
parseInt(s) ==
    LET I == {i \in DOMAIN s : ~IsSpace(s[i])}
        start == IF I = {} THEN Len(s) + 1 ELSE Min(I)
        signed == start <= Len(s) /\ s[start] \in {"+", "-"}
        p == IF signed THEN start + 1 ELSE start
        n == digitRun(s, p)
    IN  IF n = 0 THEN NaN
        ELSE Time(0, (IF signed /\ s[start] = "-" THEN -1 ELSE 1) * digitsValue(s, p, n))

Recent == <<"-", "-", "r", "e", "c", "e", "n", "t">>
Help == <<"-", "-", "h", "e", "l", "p">>
H == <<"-", "h">>

\* lines 15-24: the options read from the arguments; mode "usage" stands
\* for the calls of usage(), which ends the process
parseArgs(args) ==
    IF Len(args) = 0 THEN [mode |-> "usage"]
    ELSE IF args[1] = Recent
    THEN [mode |-> "recent",
          days |-> parseInt(IF Len(args) >= 2 /\ args[2] # <<>> THEN args[2] ELSE <<"7">>)]
    ELSE IF args[1] = Help \/ args[1] = H THEN [mode |-> "usage"]
    ELSE [mode |-> "ticker", ticker |-> toUpperCase(args[1])]

\* the command lines of the runs: none, --help, -h, x, --recent,
\* --recent 7, --recent abc, --recent 999999999 and --recent -99979243,
\* the number of days from the day of the run back to the last day a date
\* can name
Arguments ==
    {<<>>, <<Help>>, <<H>>, <<<<"x">>>>, <<Recent>>, <<Recent, <<"7">>>>,
     <<Recent, <<"a", "b", "c">>>>,
     <<Recent, <<"9", "9", "9", "9", "9", "9", "9", "9", "9">>>>,
     <<Recent, <<"-", "9", "9", "9", "7", "9", "2", "4", "3">>>>}

\* the day the command runs, in days since the epoch, and the times of that
\* day it may run at, in milliseconds since midnight UTC (midnight, one
\* millisecond later, noon): new Date() of line 199 reads the clock
Today == 20757
TimesOfDay == {0, 1, 43200000}

\* lines 199-200: from, the time value of to.getTime() - days * 86400000
\* for the time value to of the clock, NaN when days is or when the result
\* is out of the range of dates
rangeStart(to, days) ==
    IF days.t = "NaN" THEN NaN
    ELSE TimeClip(minus(to, Time(days.day * MsPerDay + days.ms, 0)))

Init ==
    /\ TZ \in Zones
    /\ opts \in {parseArgs(args) : args \in Arguments}
    /\ pc = "main"
    /\ queue = 0 /\ found = 0 /\ processed = 0
    /\ allTrades = <<>> /\ fetched = <<>>
    /\ merged = Null /\ clusters = Null
    /\ stdout = [usage |-> FALSE, banner |-> FALSE, notice |-> "", table |-> FALSE,
                 rows |-> <<>>, clusterLines |-> <<>>]
    /\ errors = 0 /\ exitCode = Null
    /\ inFlight = 0 /\ filingReqs = 0 /\ delayed = FALSE
    /\ failures = [feed |-> FALSE, filing |-> 0]
    /\ IdleParse /\ IdleCluster /\ IdlePerm

otherVars == <<TZ, parseVars, clusterVars, permVars>>

\* main, lines 371-374: console.error and process.exit(1)
mainCatch ==
    /\ errors' = errors + 1
    /\ exitCode' = Num(1)
    /\ pc' = "done"

\* the function returns and the process ends by itself
returns(notice) ==
    /\ stdout' = [stdout EXCEPT !.notice = notice]
    /\ exitCode' = Num(0)
    /\ pc' = "done"

\* main up to its first await.  Lines 17, 22 and 26-36: without an argument
\* or with --help or -h the usage text is printed and the process exits
\* with code 0.  Lines 239-241 with 94-95, and 288-289 with 199-206: the
\* banner, then the request for the company feed or for the search.  Line
\* 201: fmtDate(from) calls toISOString, which throws a RangeError when from
\* is no date; the banner is out, no request is made and main catches.
\* Whether from is a date may depend on the time of day the clock shows
Start ==
    /\ pc = "main"
    /\ \E clock \in TimesOfDay :
          IF opts.mode = "usage"
          THEN /\ stdout' = [stdout EXCEPT !.usage = TRUE]
               /\ exitCode' = Num(0)
               /\ pc' = "done"
               /\ UNCHANGED <<inFlight, errors>>
          ELSE IF /\ opts.mode = "recent"
                  /\ rangeStart(Time(Today, clock), opts.days).t = "NaN"
          THEN /\ stdout' = [stdout EXCEPT !.banner = TRUE]
               /\ mainCatch
               /\ UNCHANGED inFlight
          ELSE /\ stdout' = [stdout EXCEPT !.banner = TRUE]
               /\ inFlight' = inFlight + 1
               /\ pc' = "feed"
               /\ UNCHANGED <<errors, exitCode>>
    /\ UNCHANGED <<opts, queue, found, processed, allTrades, fetched, merged, clusters,
                   filingReqs, delayed, failures, otherVars>>

\* lines 91-93 and 242-252: the company feed answers
FeedResponse ==
    /\ pc = "feed" /\ opts.mode = "ticker"
    /\ inFlight' = inFlight - 1
    /\ \/ \* the fetch rejects, res.ok is false or the body cannot be read:
          \* fetchAtomFeed throws
          /\ failures' = [failures EXCEPT !.feed = TRUE]
          /\ mainCatch
          /\ UNCHANGED <<queue, found, stdout>>
       \/ \* the feed lists n entries; at most 15 are iterated
          \E n \in 0..MaxFeed :
             /\ found' = n
             /\ IF n = 0
                THEN /\ returns("No Form 4 filings found for this ticker.")
                     /\ UNCHANGED queue
                ELSE /\ queue' = Min({n, FilingCap})
                     /\ pc' = "loop"
                     /\ UNCHANGED <<stdout, exitCode>>
             /\ UNCHANGED <<errors, failures>>
    /\ UNCHANGED <<opts, processed, allTrades, fetched, merged, clusters,
                   filingReqs, delayed, otherVars>>

\* lines 206-208 and 289-312: the search answers
SearchResponse ==
    /\ pc = "feed" /\ opts.mode = "recent"
    /\ inFlight' = inFlight - 1
    /\ \/ \* the fetch rejects, res.ok is false or res.json() rejects
          /\ failures' = [failures EXCEPT !.feed = TRUE]
          /\ mainCatch
          /\ UNCHANGED <<queue, found, stdout>>
       \/ \* n hits (or filings), of which the first 15 are read; noUrl of
          \* these have no URL and are left out (lines 304 and 309);
          \* totalZero: hits.total.value is 0
          \E n \in 0..MaxFeed, noUrl \in 0..FilingCap, totalZero \in BOOLEAN :
             /\ noUrl <= n
             /\ totalZero => n = 0
             /\ found' = n
             /\ IF n = 0 /\ totalZero
                THEN /\ returns("No recent filings found.")
                     /\ UNCHANGED queue
                ELSE /\ queue' = Min({n, FilingCap}) - noUrl
                     /\ pc' = "loop"
                     /\ UNCHANGED <<stdout, exitCode>>
             /\ UNCHANGED <<errors, failures>>
    /\ UNCHANGED <<opts, processed, allTrades, fetched, merged, clusters,
                   filingReqs, delayed, otherVars>>

\* lines 252-254 and 315-316: the next filing, after a timer unless it is the first
LoopHead ==
    /\ pc = "loop"
    /\ pc' = IF processed >= queue THEN "report"
             ELSE IF processed > 0 THEN "delay" ELSE "fetch"
    /\ UNCHANGED <<opts, queue, found, processed, allTrades, fetched, merged, clusters,
                   stdout, errors, exitCode, inFlight, filingReqs, delayed, failures,
                   otherVars>>

\* setTimeout(r, 150) runs out
TimerFires ==
    /\ pc = "delay"
    /\ delayed' = TRUE
    /\ pc' = "fetch"
    /\ UNCHANGED <<opts, queue, found, processed, allTrades, fetched, merged, clusters,
                   stdout, errors, exitCode, inFlight, filingReqs, failures, otherVars>>

\* one more request for a filing; the count stops at 2 (two or more)
oneMore(n) == IF n = 0 THEN 1 ELSE 2

\* a request for a filing goes out
request ==
    /\ inFlight' = inFlight + 1
    /\ filingReqs' = oneMore(filingReqs)
    /\ delayed' = FALSE

\* the filing fails and the failure is thrown out of the loop: lookupTicker
\* ends in main's catch
filingRethrown ==
    /\ failures' = [failures EXCEPT !.filing = @ + 1]
    /\ mainCatch
    /\ UNCHANGED <<processed, allTrades, fetched, stdout>>

\* the filing gives nothing: fetchForm4Xml returns null (lines 123, 127, 136,
\* 139, 140) or an empty text (line 257), lookupRecent's catch swallows the
\* error (line 340) or no branch applies; the loop goes on
filingFailed ==
    /\ failures' = [failures EXCEPT !.filing = @ + 1]
    /\ processed' = processed + 1
    /\ pc' = "loop"
    /\ UNCHANGED <<allTrades, fetched, errors, exitCode, stdout>>

\* lines 258-261, 322 and 335: the document is parsed and its records pushed
filingParsed(doc) ==
    /\ allTrades' = appendTrades(allTrades, parsedDocument[doc])
    /\ fetched' = Append(fetched, doc)
    /\ processed' = processed + 1
    /\ pc' = "loop"
    /\ UNCHANGED <<failures, errors, exitCode, stdout>>

\* lines 119-122 and 318: the filing's first request; lookupTicker makes
\* none for a link outside /Archives/
FetchFiling ==
    /\ pc = "fetch"
    /\ \/ /\ request
          /\ pc' = "index"
          /\ UNCHANGED <<processed, allTrades, fetched, errors, exitCode, failures, stdout>>
       \/ /\ opts.mode = "ticker"
          /\ filingFailed
          /\ UNCHANGED <<inFlight, filingReqs, delayed>>
    /\ UNCHANGED <<opts, queue, found, merged, clusters, otherVars>>

\* lines 122-135 and 318-332: the first response.  It fails, or it is the
\* index page whose .xml link is requested at once, or (lookupRecent) it is
\* the document itself
IndexResponse ==
    /\ pc = "index"
    /\ \/ /\ inFlight' = inFlight - 1
          /\ filingFailed
          /\ UNCHANGED <<filingReqs, delayed>>
       \/ /\ inFlight' = inFlight
          /\ filingReqs' = oneMore(filingReqs)
          /\ delayed' = FALSE
          /\ pc' = "xml"
          /\ UNCHANGED <<processed, allTrades, fetched, errors, exitCode, failures, stdout>>
       \/ /\ opts.mode = "recent"
          /\ Len(fetched) < MaxFetched
          /\ inFlight' = inFlight - 1
          /\ \E doc \in FlowDocs : filingParsed(doc)
          /\ UNCHANGED <<filingReqs, delayed>>
    /\ UNCHANGED <<opts, queue, found, merged, clusters, otherVars>>

\* lines 135-137 with 256-261, and 332-336: the response for the XML document
XmlResponse ==
    /\ pc = "xml"
    /\ inFlight' = inFlight - 1
    /\ \/ \* the fetch rejects or the status is not ok: lines 136 and 139, 333
          \* and 340
          filingFailed
       \/ \* the status is ok and the body cannot be read.  lookupRecent
          \* awaits the body inside its try (lines 334 and 340).  Line 137
          \* returns the promise of the body without awaiting it, so when it
          \* rejects fetchForm4Xml has left its try: the await of line 256
          \* throws and nothing in lookupTicker catches
          IF opts.mode = "ticker" THEN filingRethrown ELSE filingFailed
       \/ \* the body is read
          /\ Len(fetched) < MaxFetched
          /\ \E doc \in FlowDocs : filingParsed(doc)
    /\ UNCHANGED <<opts, queue, found, merged, clusters, filingReqs, delayed, otherVars>>

\* lines 266-283 and 346-361: nothing found, or the sort, the table and the
\* cluster lines; an error thrown by detectClusters, after the table, goes
\* to main's catch
Report ==
    /\ pc = "report"
    /\ IF allTrades = <<>>
       THEN /\ returns(IF opts.mode = "ticker"
                       THEN "No non-derivative buy/sell transactions found."
                       ELSE "No non-derivative buy/sell transactions found in recent filings.")
            /\ UNCHANGED <<allTrades, merged, clusters, errors>>
       ELSE \E r \in {report(allTrades)} :
                /\ merged' = [t |-> "array", v |-> allTrades]
                /\ allTrades' = r.rows
                /\ clusters' = r
                /\ stdout' = [stdout EXCEPT
                       !.table = TRUE,
                       !.rows = r.rows,
                       !.clusterLines =
                           [k \in DOMAIN r.clusters |->
                               [ticker |-> r.clusters[k].ticker,
                                count |-> r.clusters[k].count,
                                insiders |-> r.clusters[k].insiders]]]
                /\ IF r.threw
                   THEN mainCatch
                   ELSE /\ exitCode' = Num(0)
                        /\ pc' = "done"
                        /\ UNCHANGED errors
    /\ UNCHANGED <<opts, queue, found, processed, fetched, inFlight,
                   filingReqs, delayed, failures, otherVars>>

Next ==
    \/ Start \/ FeedResponse \/ SearchResponse \/ LoopHead \/ TimerFires
    \/ FetchFiling \/ IndexResponse \/ XmlResponse \/ Report

Spec == Init /\ [][Next]_vars

-----------------------------------------------------------------------------
(* Claims about parseForm4Transactions, under SpecParse *)

\* the blocks of the filing that are nonDerivativeTransaction elements with
\* transaction code P or S
qualifying(f) ==
    SelectSeq(f.blocks, LAMBDA b : /\ b.element = "nonDerivativeTransaction"
                                   /\ ~IsNull(b.code.text)
                                   /\ b.code.text.v \in {<<"P">>, <<"S">>})

\* C1: the returned array holds one record per nonDerivativeTransaction block
\* whose code is P or S, in document order, BUY for P and SELL for S; blocks
\* with another code or none, and derivative blocks, give no record
C1_OneRecordPerTradeBlock ==
    ~IsNull(parsed) =>
        LET q == qualifying(filing)
        IN  /\ Len(parsed.v) = Len(q)
            /\ \A k \in DOMAIN q :
                  parsed.v[k].type = IF q[k].code.text.v = <<"P">> THEN "BUY" ELSE "SELL"

\* a sale and a purchase whose code stands on a line of its own, in one
\* document, gave SELL then BUY
C1_Witness ==
    /\ ~IsNull(parsed)
    /\ Len(filing.blocks) = 2
    /\ filing.blocks[1].element = "nonDerivativeTransaction"
    /\ filing.blocks[1].code.text = Str(<<"S">>)
    /\ filing.blocks[2].code = [text |-> Str(<<"P">>), padded |-> TRUE]
    /\ Len(parsed.v) = 2
    /\ parsed.v[1].type = "SELL" /\ parsed.v[2].type = "BUY"

\* x is a number and x >= 0
nonNegative(x) ==
    \/ x.t = "number" /\ (x.sign = 1 \/ x.m = <<>>)
    \/ x.t = "Infinity" /\ x.v > 0
\* x is a number and x > 0
positive(x) ==
    \/ x.t = "number" /\ x.sign = 1 /\ x.m # <<>>
    \/ x.t = "Infinity" /\ x.v > 0

\* C3: every record has non-negative numeric shares and price, and a value
\* that is non-null only if both are strictly positive, then shares * price
C3_AmountsNonNegative ==
    ~IsNull(parsed) =>
        \A k \in DOMAIN parsed.v :
            LET r == parsed.v[k]
            IN  /\ nonNegative(r.shares)
                /\ nonNegative(r.price)
                /\ ~IsNull(r.value) =>
                      /\ positive(r.shares) /\ positive(r.price)
                      /\ r.value = times(r.shares, r.price)

-----------------------------------------------------------------------------
(* Claims about detectClusters, under SpecCluster *)

\* the clusters of a call that returned
returned(outcome) == IF outcome.type = "return" THEN outcome.value ELSE <<>>

inputBuys(ticker) ==
    SelectSeq(tradesIn, LAMBDA t : t.type = "BUY" /\ t.ticker = ticker)

\* the record's date can be read: it is null, which new Date reads as the
\* epoch, or a text that new Date parses
readable(t) == dateValue(t.date).t = "number"

\* both dates can be read and a's is later than b's
later(a, b) ==
    /\ readable(a) /\ readable(b)
    /\ LET x == dateValue(a.date)
           y == dateValue(b.date)
       IN  x.day > y.day \/ (x.day = y.day /\ x.ms > y.ms)

\* both dates can be read and are the same instant
sameDate(a, b) == readable(a) /\ readable(b) /\ dateValue(a.date) = dateValue(b.date)

\* both dates can be read and b's is at most window days after a's
within(a, b, window) ==
    /\ readable(a) /\ readable(b)
    /\ LET x == dateValue(a.date)
           y == dateValue(b.date)
       IN  y.day - x.day < window \/ (y.day - x.day = window /\ y.ms <= x.ms)

\* C2: a ticker has a cluster iff its BUY records are at least 2, by at
\* least 2 insiders, with earliest to latest within the window, and then
\* exactly one.  A date that cannot be read is left out of the span, and a
\* group that holds one is only required to give no cluster that the dates
\* which can be read rule out
C2_ClusterIffQualifies ==
    Len(results) >= 1 =>
        \A ticker \in TickerPool :
            LET b == inputBuys(ticker)
                dated == SelectSeq(b, LAMBDA t : readable(t))
                emitted == Cardinality({k \in DOMAIN returned(results[1]) :
                                         returned(results[1])[k].ticker = ticker})
                many == /\ Len(b) >= 2
                        /\ Cardinality({b[i].insider : i \in DOMAIN b}) >= 2
                spanOk == \A i, j \in DOMAIN dated : within(dated[i], dated[j], windowDays)
            IN  /\ emitted <= 1
                /\ emitted = 1 => many /\ spanOk
                /\ (Len(dated) = Len(b) /\ many /\ spanOk) => emitted = 1

occurrences(s, x) == Cardinality({i \in DOMAIN s : s[i] = x})

\* C5: buys are exactly the ticker's BUY records of the input, by date
\* ascending (no record stands before one of an earlier date); insiders
\* lists each insider of buys once, in order of first appearance; count is
\* the number of distinct insiders
C5_ClusterShape ==
    Len(results) >= 1 =>
        \A k \in DOMAIN returned(results[1]) :
            LET c == returned(results[1])[k]
                b == inputBuys(c.ticker)
                names == [i \in DOMAIN c.buys |-> c.buys[i].insider]
            IN  /\ Len(c.buys) = Len(b)
                /\ \A t \in Range(b) : occurrences(c.buys, t) = occurrences(b, t)
                /\ \A i, j \in DOMAIN c.buys : i < j => ~later(c.buys[i], c.buys[j])
                /\ Range(c.insiders) = Range(names)
                /\ \A i, j \in DOMAIN c.insiders : i < j =>
                      /\ c.insiders[i] # c.insiders[j]
                      /\ Min({n \in DOMAIN names : names[n] = c.insiders[i]})
                            < Min({n \in DOMAIN names : names[n] = c.insiders[j]})
                /\ c.count = Len(c.insiders)
                /\ c.count = Cardinality(Range(names))

\* C6: a call leaves the caller's array as it was, and a second call on it
\* returns what the first returned
C6_InputKeptAndRepeatable ==
    /\ trades = tradesIn
    /\ Len(results) = 2 => results[1] = results[2]

\* two calls on an array in date-descending order that holds a cluster
C6_Witness ==
    /\ Len(results) = 2
    /\ returned(results[1]) # <<>>
    /\ Len(trades) = 3
    /\ \A i \in 1..2 : later(trades[i], trades[i + 1])

-----------------------------------------------------------------------------
(* Claims about the order of the documents, under SpecPerm *)

bothRun == ~IsNull(runA) /\ ~IsNull(runB)

\* the time value of each row
dates(rows) == [i \in DOMAIN rows |-> dateValue(rows[i].date)]

\* the same records, each as many times
sameRecords(s, t) ==
    /\ Len(s) = Len(t)
    /\ \A x \in Range(s) : occurrences(s, x) = occurrences(t, x)

sameCluster(c, d) ==
    /\ c.ticker = d.ticker
    /\ c.count = d.count
    /\ Range(c.insiders) = Range(d.insiders)
    /\ sameRecords(c.buys, d.buys)
    /\ dates(c.buys) = dates(d.buys)

\* C4 as stated: the documents collected in either order give the same sorted
\* sequence and the same clusters, insiders lists and buys lists included
C4_SameUnderPermutation ==
    bothRun => /\ runA.rows = runB.rows
               /\ runA.clusters = runB.clusters

\* C4 amended: the two sorted sequences hold the same records; when the date
\* of every record can be read they have the same date at every position and
\* may differ only in the order of records of equal date, the clusters have
\* the same tickers and counts, the same insiders as sets and the same buys
\* up to the order of equal dates, and when no two records share a date the
\* two results are identical
C4_SameUpToTies ==
    bothRun =>
        /\ sameRecords(runA.rows, runB.rows)
        /\ (\A i \in DOMAIN runA.rows : readable(runA.rows[i])) =>
              /\ dates(runA.rows) = dates(runB.rows)
              /\ Len(runA.clusters) = Len(runB.clusters)
              /\ \A c \in Range(runA.clusters) :
                    \E d \in Range(runB.clusters) : sameCluster(c, d)
              /\ (\A i, j \in DOMAIN runA.rows :
                      i # j => ~sameDate(runA.rows[i], runA.rows[j]))
                 => /\ runA.rows = runB.rows
                    /\ runA.clusters = runB.clusters

\* two insiders bought on the same day: the two orders of their documents
\* give a cluster each, with the rows and the insiders in different orders
C4_Witness ==
    /\ bothRun
    /\ docsA # docsB
    /\ \A i \in DOMAIN runA.rows : readable(runA.rows[i])
    /\ runA.rows # runB.rows
    /\ Len(runA.clusters) = 1
    /\ runA.clusters[1].insiders # runB.clusters[1].insiders

-----------------------------------------------------------------------------
(* Claims about the lookup flows, under Spec *)

\* the step sends a request for a filing: its first one or the one for its
\* XML document
filingRequestIssued ==
    \/ pc = "fetch" /\ pc' = "index"
    \/ pc = "index" /\ pc' = "xml"

\* C7: at most one request is in flight, every request for a filing after
\* the first follows a run of the 150 ms timer since the request before it,
\* and at most 15 filings are processed
C7_RequestsDelayedAndCapped ==
    [][/\ inFlight' <= 1
       /\ processed' <= FilingCap
       /\ (filingRequestIssued /\ filingReqs >= 1) => delayed]_vars

\* C8: when the feed or the search fails there is one error message, exit
\* code 1, no table and no cluster line; a filing that fails never ends the
\* run that way: it adds no document, and the loop goes on to the end of
\* the queue
C8_FilingFailureNeverAborts ==
    /\ failures.feed =>
          /\ pc = "done" /\ errors = 1 /\ exitCode = Num(1)
          /\ ~stdout.table /\ stdout.rows = <<>> /\ stdout.clusterLines = <<>>
    /\ failures.filing > 0 => errors = 0 /\ exitCode # Num(1)
    /\ Len(fetched) + failures.filing <= queue
    /\ (pc = "done" /\ failures.filing > 0) => processed = queue

\* C9: the rows given to table and to detectClusters are the merged records
\* by date descending, a null date counting as the epoch: no record stands
\* before one of a later date, and records of equal date are in their merge
\* order.  A date that cannot be read is given no place of its own
C9_SortedDescendingStable ==
    (pc = "done" /\ stdout.table) =>
        /\ stdout.rows = allTrades
        /\ clusters.detectInput = allTrades
        /\ sameRecords(allTrades, merged.v)
        /\ \A i, j \in DOMAIN allTrades : i < j => ~later(allTrades[j], allTrades[i])
        /\ \A i \in DOMAIN allTrades :
              SelectSeq(allTrades, LAMBDA t : sameDate(t, allTrades[i]))
                 = SelectSeq(merged.v, LAMBDA t : sameDate(t, allTrades[i]))

\* the collection as it was before the sort
beforeSort == IF IsNull(merged) THEN allTrades ELSE merged.v

RECURSIVE total(_, _)
total(lengths, n) == IF n = 0 THEN 0 ELSE total(lengths, n - 1) + lengths[n]

\* C10: before the sort the collection is the concatenation, in the order
\* of the fetched documents, of what the parser returned for each; its length
\* is the sum of the lengths of these results
C10_ConcatenationOfResults ==
    LET each == [k \in DOMAIN fetched |-> parsedDocument[fetched[k]]]
    IN  /\ beforeSort = Concat(each)
        /\ Len(beforeSort) = total([k \in DOMAIN each |-> Len(each[k])], Len(each))

\* the same document came twice, with a document without transaction in
\* between: its record is there twice
C10_Witness ==
    /\ pc = "report"
    /\ fetched = <<"jane", "grant", "jane">>
    /\ Len(allTrades) = 2
    /\ allTrades[1] = allTrades[2]

=============================================================================
